---- MODULE Spec2Model ----
(***************************************************************************)
(* Document ingestion and retrieval backend (stealth-backend).             *)
(*                                                                         *)
(* The module holds several specifications over one set of variables:      *)
(*   SpecRL      the sliding-window limiter (routes/chat.js, routes/       *)
(*               documents.js) called by concurrent request handlers;      *)
(*   SpecText    extractTextFromFile as a function of the uploaded file    *)
(*               and of what its extractor does;                           *)
(*   SpecExtract the POST /extract handler of app.js with the storage      *)
(*               service;                                                  *)
(*   Spec        POST /api/documents and DELETE /api/documents/:id over    *)
(*               scratch files, object storage and the documents table.    *)
(* A JavaScript handler runs without interruption between two awaits, so   *)
(* every action below is one such continuation.                            *)
(***************************************************************************)
EXTENDS Integers, Sequences, FiniteSets, TLC

VARIABLES
    requests,     \* rateLimiter.requests: Map key -> array of timestamps
    now,          \* Date.now()
    maxRequests,  \* the maxRequests argument of isAllowed (SpecRL)
    windowMs,     \* the windowMs argument of isAllowed (SpecRL)
    callers,      \* SpecRL: the request handlers that call isAllowed
    admitLog,     \* SpecRL history: per key, every timestamp ever admitted
    file,         \* SpecText: the uploaded file handed to extractTextFromFile
    outcome,      \* SpecText: what the format extractor does with that file
    result,       \* SpecText: the value extractTextFromFile returned
    tempFiles,    \* the scratch files on disk (temp/)
    storage,      \* the object keys held by the storage bucket
    ex,           \* SpecExtract: the POST /extract requests in flight
    documents,    \* the rows of the documents table
    post,         \* Spec: the POST /api/documents requests in flight
    del,          \* Spec: the DELETE /api/documents/:id requests in flight
    conversations,\* the rows of the conversations table
    api           \* the request in flight of a handler that only reads the
                  \* documents table (GET /api/documents, POST /api/documents/url,
                  \* the context assembly of POST /api/chat/stream) or of
                  \* POST /api/conversations/generate-title

rlVars == <<requests, now, maxRequests, windowMs, callers, admitLog>>
txtVars == <<file, outcome, result>>
fsVars == <<tempFiles, storage>>
exVars == <<ex>>
docVars == <<documents, post, del>>
apiVars == <<conversations, api>>

vars == <<rlVars, txtVars, fsVars, exVars, docVars, apiVars>>

\* The variables a specification leaves alone.
notRL == <<txtVars, fsVars, exVars, docVars, apiVars>>
notText == <<rlVars, fsVars, exVars, docVars, apiVars>>
notExtract == <<rlVars, txtVars, docVars, apiVars>>
notDocs == <<maxRequests, windowMs, callers, admitLog, txtVars, exVars, apiVars>>
notApi == <<rlVars, txtVars, fsVars, exVars, docVars>>

None == "none"

Users == {"alice", "bob"}

(***************************************************************************)
(* Bounds of the model.                                                    *)
(***************************************************************************)
MaxN == 2
MaxW == 2
MaxNow == 2
NumCallers == 2
MaxCore == 51
MaxPad == 1
NumEx == 1
MaxKeys == 2
MaxScratch == 2
NumPost == 1
NumDel == 1
MaxDocs == 1
MaxPaths == 1
MaxRows == 2
MaxConv == 2
MaxChatRows == 2
MaxWords == 2

\* Values of the variables a specification does not use.
NoFile == [mimetype |-> None, originalname |-> None, size |-> 0]
NoOutcome == [raised |-> FALSE, text |-> <<>>, message |-> None]
NoResult == [done |-> FALSE, text |-> <<>>]

ExSlots == 1..NumEx

\* null for a path or an object key (both are tuples).
Null == <<>>

IdleEx == [pc |-> "idle", file |-> NoFile, tempFilePath |-> Null, storageInfo |-> Null,
           downloadedFilePath |-> Null, out |-> NoOutcome, after |-> 0,
           message |-> None, status |-> 0, extracted |-> FALSE,
           extractedText |-> <<>>]

\* No request in flight.
NoRequest == [pc |-> "idle"]

PostSlots == 1..NumPost
DelSlots == 1..NumDel

\* A JavaScript value with its type, for the strict comparison ===.
Undefined == [type |-> "undefined", v |-> None]

IdlePost == [pc |-> "idle", file |-> NoFile, path |-> Null, title |-> None,
             isCompanyWide |-> Undefined, token |-> None, extractedText |-> <<>>,
             profileStatus |-> None, filePath |-> Null, insertFailed |-> FALSE,
             exit |-> None, status |-> 0]

IdleDel == [pc |-> "idle", id |-> 0, token |-> None, role |-> None,
            file_path |-> Null, removed |-> FALSE, status |-> 0]

(***************************************************************************)
(* Rate limiter: rateLimiter.isAllowed(key, maxRequests, windowMs).        *)
(***************************************************************************)

\* this.requests.has(key) ? this.requests.get(key) : []
userRequestsOf(reqs, key) == IF key \in DOMAIN reqs THEN reqs[key] ELSE <<>>

validRequests_keepsBoundary(userRequests, windowStart) ==
    SelectSeq(userRequests, LAMBDA time : time >= windowStart)

\* userRequests.filter(time => time > windowStart)
validRequests(userRequests, windowStart) ==
    SelectSeq(userRequests, LAMBDA time : time > windowStart)

recordAdmission_lost(valid, t) == valid

\* validRequests.push(now)
recordAdmission(valid, t) == Append(valid, t)

\* The value isAllowed returns.
isAllowed(reqs, key, maxR, w, t) ==
    LET valid == validRequests(userRequestsOf(reqs, key), t - w)
    IN  ~(Len(valid) >= maxR)

\* The Map after the call: the key is created, the filtered array is stored,
\* and the timestamp is pushed onto it when the call is admitted.
requestsAfter(reqs, key, maxR, w, t) ==
    LET valid == validRequests(userRequestsOf(reqs, key), t - w)
        kept  == IF Len(valid) >= maxR THEN valid ELSE recordAdmission(valid, t)
    IN  [k \in DOMAIN reqs \cup {key} |-> IF k = key THEN kept ELSE reqs[k]]

EmptyMap == [k \in {} |-> <<>>]

(***************************************************************************)
(* SpecRL: handlers that resolve the bearer token (await), then call       *)
(* isAllowed synchronously, then look the profile up (await).              *)
(***************************************************************************)
Callers == 1..NumCallers

rateLimitKey(user) == <<"chat", user>>

\* The users whose requests reach the limiter in SpecRL: the claims checked
\* there are about one fixed key.
RLUsers == {"alice"}

LimiterKeys == {rateLimitKey(u) : u \in RLUsers}

IdleCaller == [pc |-> "idle", token |-> None, at |-> 0]

\* Number of admissions of key with a timestamp in (lo, hi].
AdmittedIn(log, key, lo, hi) ==
    Cardinality({i \in DOMAIN log[key] : log[key][i] > lo /\ log[key][i] <= hi})

InitRL ==
    /\ requests = EmptyMap
    /\ now = 0
    /\ maxRequests \in 1..MaxN
    /\ windowMs \in 1..MaxW
    /\ callers = [c \in Callers |-> IdleCaller]
    /\ admitLog = [k \in LimiterKeys |-> <<>>]
    /\ file = NoFile /\ outcome = NoOutcome /\ result = NoResult
    /\ tempFiles = {} /\ storage = {} /\ ex = [e \in ExSlots |-> IdleEx]
    /\ documents = {}
    /\ post = [p \in PostSlots |-> IdlePost] /\ del = [d \in DelSlots |-> IdleDel]
    /\ conversations = {} /\ api = NoRequest

\* A request with a bearer token arrives; the handler runs up to
\* `await supabase.auth.getUser(token)`.
Arrive(c, tok) ==
    /\ callers[c].pc = "idle"
    /\ callers' = [callers EXCEPT ![c] = [IdleCaller EXCEPT !.pc = "auth", !.token = tok]]
    /\ UNCHANGED <<requests, now, maxRequests, windowMs, admitLog>>
    /\ UNCHANGED notRL

\* getUser resolved: 401 for an invalid token, otherwise the limiter is asked
\* in the same continuation, which answers 429 or suspends on the profile lookup.
AuthResolved(c) ==
    /\ callers[c].pc = "auth"
    /\ IF callers[c].token \notin RLUsers
       THEN /\ callers' = [callers EXCEPT ![c].pc = "401"]
            /\ UNCHANGED <<requests, admitLog>>
       ELSE LET key == rateLimitKey(callers[c].token)
                ok  == isAllowed(requests, key, maxRequests, windowMs, now)
            IN  /\ requests' = requestsAfter(requests, key, maxRequests, windowMs, now)
                /\ admitLog' = IF ok THEN [admitLog EXCEPT ![key] = Append(@, now)]
                                     ELSE admitLog
                /\ callers' = [callers EXCEPT ![c] =
                      IF ok THEN [@ EXCEPT !.pc = "profile", !.at = now]
                            ELSE [@ EXCEPT !.pc = "429"]]
    /\ UNCHANGED <<now, maxRequests, windowMs>>
    /\ UNCHANGED notRL

\* The profile lookup resolved; the rest of the handler does not touch the
\* limiter, and its response ends the request.
ProfileResolved(c) ==
    /\ callers[c].pc = "profile"
    /\ callers' = [callers EXCEPT ![c] = IdleCaller]
    /\ UNCHANGED <<requests, now, maxRequests, windowMs, admitLog>>
    /\ UNCHANGED notRL

\* A 401 or 429 response has been sent; the slot serves the next request.
Finished(c) ==
    /\ callers[c].pc \in {"401", "429"}
    /\ callers' = [callers EXCEPT ![c] = IdleCaller]
    /\ UNCHANGED <<requests, now, maxRequests, windowMs, admitLog>>
    /\ UNCHANGED notRL

\* One millisecond passes.
Tick ==
    /\ now < MaxNow
    /\ now' = now + 1
    /\ UNCHANGED <<requests, maxRequests, windowMs, callers, admitLog>>
    /\ UNCHANGED notRL

NextRL ==
    \/ \E c \in Callers, tok \in RLUsers \cup {"invalid"} : Arrive(c, tok)
    \/ \E c \in Callers : AuthResolved(c)
    \/ \E c \in Callers : ProfileResolved(c)
    \/ \E c \in Callers : Finished(c)
    \/ Tick

SpecRL == InitRL /\ [][NextRL]_vars

(***************************************************************************)
(* C1: for a fixed key, at most maxRequests calls are admitted in any      *)
(* window (t - windowMs, t]; a call is rejected exactly when maxRequests   *)
(* calls were already admitted in the window ending at the call (it is the *)
(* (N+1)th), and is admitted otherwise, in particular once the window has  *)
(* fully elapsed since the admitted calls.                                 *)
(***************************************************************************)
AtMostNPerWindow ==
    \A k \in LimiterKeys : \A t \in 0..now :
        AdmittedIn(admitLog, k, t - windowMs, t) <= maxRequests

\* The step of caller c is an isAllowed call.
Calls(c) == callers[c].pc = "auth" /\ callers'[c].pc \in {"profile", "429"}

AdmittedBefore(c) ==
    AdmittedIn(admitLog, rateLimitKey(callers[c].token), now - windowMs, now)

C1_SlidingWindow ==
    [][ /\ AtMostNPerWindow'
        /\ \A c \in Callers : Calls(c) =>
              /\ callers'[c].pc = "profile" <=> AdmittedBefore(c) < maxRequests
              /\ callers'[c].pc = "429" <=> AdmittedBefore(c) = maxRequests ]_vars

\* A caller is rejected as the (N+1)th of a window, and the same key has been
\* admitted again afterwards: more than maxRequests admissions in all.
C1_Witness ==
    \E c \in Callers :
        /\ callers[c].pc = "429"
        /\ Len(admitLog[rateLimitKey(callers[c].token)]) > maxRequests

(***************************************************************************)
(* C6: whatever the interleaving of the handlers around their awaits, the  *)
(* handlers that were admitted for one key inside the current window and   *)
(* are suspended on the profile lookup are never more than maxRequests.    *)
(***************************************************************************)
HoldsAdmission(c, user) ==
    /\ callers[c].pc = "profile"
    /\ callers[c].token = user
    /\ callers[c].at > now - windowMs

C6_SerializedAdmission ==
    \A u \in RLUsers :
        Cardinality({c \in Callers : HoldsAdmission(c, u)}) <= maxRequests

\* Two handlers of one key were in flight at once: one was admitted and is
\* suspended on the profile lookup, the other found the window full.
C6_Witness ==
    \E c1, c2 \in Callers :
        /\ c1 # c2
        /\ HoldsAdmission(c1, callers[c1].token)
        /\ callers[c2].pc = "429"
        /\ callers[c2].token = callers[c1].token

(***************************************************************************)
(* Text extraction: extractTextFromFile(file, filePath) of the documents   *)
(* route.  A string is a sequence of characters; the two template strings  *)
(* are sequences of their literal pieces and interpolated values.          *)
(***************************************************************************)
PlainType == "text/plain"
PdfType == "application/pdf"
DocType == "application/msword"
DocxType == "application/vnd.openxmlformats-officedocument.wordprocessingml.document"
PngType == "image/png"

Mimetypes == {PlainType, PdfType, DocType, DocxType}

\* mimetype.includes(needle), for the needles the code uses.
includes(mimetype, needle) ==
    CASE needle = "wordprocessingml" -> mimetype = DocxType
      [] needle = "msword" -> mimetype = DocType
      [] needle = "word" -> mimetype \in {DocType, DocxType}
      [] needle = "pdf" -> mimetype = PdfType
      [] OTHER -> FALSE

\* The if / else-if chain selects an extractor for these types only.
HasExtractor(mimetype) ==
    \/ mimetype = PlainType
    \/ mimetype = PdfType
    \/ includes(mimetype, "wordprocessingml") \/ includes(mimetype, "msword")

TextThreshold == 50

RECURSIVE trimStart(_)
trimStart(str) ==
    IF str # <<>> /\ Head(str) = " " THEN trimStart(Tail(str)) ELSE str

RECURSIVE trimEnd(_)
trimEnd(str) ==
    IF str # <<>> /\ str[Len(str)] = " " THEN trimEnd(SubSeq(str, 1, Len(str) - 1)) ELSE str

\* String.prototype.trim
trim(str) == trimEnd(trimStart(str))

\* Math.round(a / b) for a >= 0, b > 0 (halves round up).
MathRoundDiv(a, b) == (2 * a + b) \div (2 * b)

BytesPerKB == 1024

tooShort_inclusive(extractedText) ==
    Len(extractedText) = 0 \/ Len(trim(extractedText)) <= TextThreshold

\* !extractedText || extractedText.trim().length < 50
tooShort(extractedText) ==
    Len(extractedText) = 0 \/ Len(trim(extractedText)) < TextThreshold

\* The descriptive text built when the extracted text is too short.
tooShortText(f) ==
    << "Document: ", f.originalname,
       "This is a ",
       IF includes(f.mimetype, "pdf") THEN "PDF"
       ELSE IF includes(f.mimetype, "word") THEN "Word" ELSE "document",
       " file uploaded to the platform.",
       "- Original Name: ", f.originalname,
       "- Type: ", f.mimetype,
       "- Size: ", ToString(MathRoundDiv(f.size, BytesPerKB)), " KB",
       "- Upload Date: ", "toLocaleDateString()",
       "Note: Text extraction was not successful for this file." >>

\* The descriptive text built in the catch block.
errorText(f, message) ==
    << "Document: ", f.originalname,
       "This document has been uploaded but text extraction encountered an error.",
       "- Original Name: ", f.originalname,
       "- Size: ", ToString(MathRoundDiv(f.size, BytesPerKB)), " KB",
       "- Upload Date: ", "toLocaleDateString()",
       "Error during text extraction: ", message,
       "Please try re-uploading the document or contact support if the issue persists." >>

\* extractTextFromFile: `out` is what reading and parsing the file does.
extractTextFromFile(f, out) ==
    IF HasExtractor(f.mimetype) /\ out.raised
    THEN errorText(f, out.message)
    ELSE LET extractedText == IF HasExtractor(f.mimetype) THEN out.text ELSE <<>>
         IN  IF tooShort(extractedText) THEN tooShortText(f) ELSE extractedText

\* A text is one of the two descriptive texts.
IsFallback(str) == str # <<>> /\ str[1] = "Document: "

Contains(str, piece) == \E i \in DOMAIN str : str[i] = piece

Spaces(n) == [i \in 1..n |-> " "]
Letters(n) == [i \in 1..n |-> "x"]

\* The texts an extractor may return: a core of letters between blanks.
Texts == {Spaces(l) \o Letters(c) \o Spaces(t) : l \in 0..MaxPad, c \in 0..MaxCore, t \in 0..MaxPad}

Outcomes ==
    {[raised |-> FALSE, text |-> t, message |-> None] : t \in Texts}
    \cup {[raised |-> TRUE, text |-> <<>>, message |-> "bad XRef entry"]}

Names == {"report.pdf", "notes.txt"}
Sizes == {10, 512, 204800}

InitText ==
    /\ file \in [mimetype : Mimetypes, originalname : Names, size : Sizes]
    /\ outcome \in Outcomes
    /\ result = NoResult
    /\ requests = EmptyMap /\ now = 0 /\ maxRequests = 0 /\ windowMs = 0
    /\ callers = [c \in Callers |-> IdleCaller]
    /\ admitLog = [k \in LimiterKeys |-> <<>>]
    /\ tempFiles = {} /\ storage = {} /\ ex = [e \in ExSlots |-> IdleEx]
    /\ documents = {}
    /\ post = [p \in PostSlots |-> IdlePost] /\ del = [d \in DelSlots |-> IdleDel]
    /\ conversations = {} /\ api = NoRequest

ExtractTextFromFile ==
    /\ ~result.done
    /\ result' = [done |-> TRUE, text |-> extractTextFromFile(file, outcome)]
    /\ UNCHANGED <<file, outcome>>
    /\ UNCHANGED notText

NextText == ExtractTextFromFile

SpecText == InitText /\ [][NextText]_vars

(***************************************************************************)
(* C7: when the extractor returns text whose trimmed length is at least 50 *)
(* (50 included), extractTextFromFile returns that text unchanged, blanks  *)
(* included, and not a descriptive fallback.                               *)
(***************************************************************************)
C7_LongTextReturnedRaw ==
    (/\ result.done
     /\ HasExtractor(file.mimetype)
     /\ ~outcome.raised
     /\ Len(trim(outcome.text)) >= 50)
    => (result.text = outcome.text /\ ~IsFallback(result.text))

\* Exactly 50 characters after trimming, with blanks around them.
C7_Witness ==
    /\ result.done
    /\ HasExtractor(file.mimetype)
    /\ ~outcome.raised
    /\ Len(trim(outcome.text)) = 50
    /\ Len(outcome.text) > 50
    /\ result.text = outcome.text

(***************************************************************************)
(* POST /extract (app.js) with the storage service.                        *)
(***************************************************************************)
JpegType == "image/jpeg"

\* The fileFilter of the multer instance of app.js.
ExtractAllowedTypes == {PdfType, DocType, DocxType, PngType, JpegType}

\* limits.fileSize of that multer instance: 10 MB.
ExtractMaxFileSize == 10485760

startsWithImage(mimetype) == mimetype \in {PngType, JpegType}

getServiceForFile(mimetype) ==
    IF mimetype = PdfType THEN "pdfService"
    ELSE IF mimetype = DocType \/ mimetype = DocxType THEN "docService"
    ELSE IF startsWithImage(mimetype) THEN "ocrService"
    ELSE None

\* Whether fs.unlinkSync of an existing scratch file throws.  The handlers
\* remove files the process itself created, so it does not.
UnlinkThrows == {FALSE}

\* cleanupTempFile: existsSync, unlinkSync, errors swallowed.
cleanupTempFile(files, filePath, unlinkThrows) ==
    IF filePath \in files /\ ~unlinkThrows THEN files \ {filePath} ELSE files

\* if (downloadedFilePath) storageService.cleanupTempFile(downloadedFilePath)
cleanupDownloaded(files, downloadedFilePath, unlinkThrows) ==
    IF downloadedFilePath # Null
    THEN cleanupTempFile(files, downloadedFilePath, unlinkThrows)
    ELSE files

Keys == {<<"obj", n>> : n \in 1..MaxKeys}
ScratchIds == 1..MaxScratch

\* multer's diskStorage filename: 'file-' + Date.now() + '-' + random + ext.
uploadPath(sid) == <<"file", sid>>

\* downloadFile: `temp-${Date.now()}-${path.basename(storagePath)}`.
tempFileName(storagePath) == <<"temp", storagePath[2]>>

\* The texts service.extractText may return as result.text.
ExTexts == {<<>>, Letters(TextThreshold - 1), Letters(TextThreshold)}

ExOutcomes ==
    {[raised |-> FALSE, text |-> t, message |-> None] : t \in ExTexts}
    \cup {[raised |-> TRUE, text |-> <<>>, message |-> "extraction failed"]}

ExFiles ==
    {[mimetype |-> m, originalname |-> "scan.png", size |-> sz] :
        m \in ExtractAllowedTypes \cup {PlainType}, sz \in {2048, ExtractMaxFileSize + 1}}

InitExtract ==
    /\ tempFiles = {} /\ storage = {}
    /\ ex = [e \in ExSlots |-> IdleEx]
    /\ documents = {}
    /\ post = [p \in PostSlots |-> IdlePost] /\ del = [d \in DelSlots |-> IdleDel]
    /\ conversations = {} /\ api = NoRequest
    /\ file = NoFile /\ outcome = NoOutcome /\ result = NoResult
    /\ requests = EmptyMap /\ now = 0 /\ maxRequests = 0 /\ windowMs = 0
    /\ callers = [c \in Callers |-> IdleCaller]
    /\ admitLog = [k \in LimiterKeys |-> <<>>]

\* The outer catch block: the scratch file is removed again and 500 is sent
\* with the message of the error that was thrown.
outerCatch(slot, message) ==
    [slot EXCEPT !.pc = "done", !.status = 500, !.message = message]

\* A request without a file part.
ExNoFile(e) ==
    /\ ex[e].pc = "idle"
    /\ ex' = [ex EXCEPT ![e] = [IdleEx EXCEPT !.pc = "done", !.status = 400,
                                              !.message = "No file uploaded"]]
    /\ UNCHANGED fsVars
    /\ UNCHANGED notExtract

\* multer refuses the file: the fileFilter's error reaches the error
\* middleware (500), the size limit is answered 400.  No scratch file is left.
ExRefused(e, f) ==
    /\ ex[e].pc = "idle"
    /\ f.mimetype \notin ExtractAllowedTypes \/ f.size > ExtractMaxFileSize
    /\ ex' = [ex EXCEPT ![e] =
          IF f.mimetype \notin ExtractAllowedTypes
          THEN [IdleEx EXCEPT !.pc = "done", !.file = f, !.status = 500,
                              !.message = "Unsupported file type"]
          ELSE [IdleEx EXCEPT !.pc = "done", !.file = f, !.status = 400,
                              !.message = "File too large"]]
    /\ UNCHANGED fsVars
    /\ UNCHANGED notExtract

\* multer stored the file; the handler starts storageService.uploadFile, which
\* reads the scratch file and suspends on the upload.  A throwing read is
\* caught by both catch blocks.
ExArrive(e, f, sid, readThrows) ==
    /\ ex[e].pc = "idle"
    /\ f.mimetype \in ExtractAllowedTypes /\ f.size <= ExtractMaxFileSize
    /\ uploadPath(sid) \notin tempFiles
    /\ \A o \in ExSlots : ex[o].tempFilePath # uploadPath(sid)
    /\ LET p == uploadPath(sid)
           slot == [IdleEx EXCEPT !.file = f, !.tempFilePath = p]
       IN  IF readThrows
           THEN \E u1, u2 \in UnlinkThrows :
                  /\ tempFiles' = cleanupTempFile(
                                     cleanupTempFile(tempFiles \cup {p}, p, u1), p, u2)
                  /\ ex' = [ex EXCEPT ![e] = outerCatch(slot, "read failed")]
           ELSE /\ tempFiles' = tempFiles \cup {p}
                /\ ex' = [ex EXCEPT ![e] = [slot EXCEPT !.pc = "upload"]]
    /\ UNCHANGED storage
    /\ UNCHANGED notExtract

\* The upload returned.  An error is thrown by uploadFile: storageInfo and
\* downloadedFilePath are still null in the catch blocks.  Otherwise the
\* object exists and downloadFile suspends on the download.
ExUploadResolved(e, key, backendError) ==
    /\ ex[e].pc = "upload"
    /\ IF backendError \/ key \in storage
       THEN \E u1, u2 \in UnlinkThrows :
              /\ tempFiles' = cleanupTempFile(
                                 cleanupTempFile(tempFiles, ex[e].tempFilePath, u1),
                                 ex[e].tempFilePath, u2)
              /\ ex' = [ex EXCEPT ![e] = outerCatch(@, "Upload failed")]
              /\ UNCHANGED storage
       ELSE /\ storage' = storage \cup {key}
            /\ ex' = [ex EXCEPT ![e].pc = "download", ![e].storageInfo = key]
            /\ UNCHANGED tempFiles
    /\ UNCHANGED notExtract

innerCatch_rethrowsAtOnce(slot, message) ==
    [slot EXCEPT !.pc = "done", !.status = 500, !.message = message]

\* The inner catch block up to `await storageService.deleteFile(...)`.
innerCatch(slot, message) ==
    [slot EXCEPT !.pc = "delete", !.after = 500, !.message = message]

\* The download returned.  downloadFile throws on a download error and when
\* writeFileSync throws, which may leave the file it was writing; the handler's
\* downloadedFilePath is assigned only when downloadFile returns.
ExDownloadResolved(e, dl) ==
    /\ ex[e].pc = "download"
    /\ dl = "ok" => ex[e].storageInfo \in storage
    /\ LET created == tempFileName(ex[e].storageInfo)
       IN  \E u1, u2 \in UnlinkThrows :
           CASE dl = "error" ->
                  /\ tempFiles' = cleanupTempFile(tempFiles, ex[e].tempFilePath, u1)
                  /\ ex' = [ex EXCEPT ![e] = innerCatch(@, "Download failed")]
             [] dl = "write throws" ->
                  /\ tempFiles' = cleanupTempFile(tempFiles, ex[e].tempFilePath, u1)
                  /\ ex' = [ex EXCEPT ![e] = innerCatch(@, "write failed")]
             [] dl = "write throws, file left" ->
                  /\ tempFiles' = cleanupTempFile(tempFiles \cup {created},
                                                  ex[e].tempFilePath, u1)
                  /\ ex' = [ex EXCEPT ![e] = innerCatch(@, "write failed")]
             [] dl = "ok" ->
                  IF getServiceForFile(ex[e].file.mimetype) = None
                  THEN /\ tempFiles' = cleanupDownloaded(
                                          cleanupTempFile(tempFiles \cup {created},
                                                          ex[e].tempFilePath, u1),
                                          created, u2)
                       /\ ex' = [ex EXCEPT ![e].pc = "delete", ![e].after = 400,
                                           ![e].downloadedFilePath = created,
                                           ![e].message = "Unsupported file type"]
                  ELSE /\ tempFiles' = tempFiles \cup {created}
                       /\ ex' = [ex EXCEPT ![e].pc = "extract",
                                           ![e].downloadedFilePath = created]
    /\ UNCHANGED storage
    /\ UNCHANGED notExtract

\* service.extractText returned or threw.
ExExtractResolved(e, out) ==
    /\ ex[e].pc = "extract"
    /\ \E u1, u2 \in UnlinkThrows :
        /\ tempFiles' = cleanupDownloaded(
                           cleanupTempFile(tempFiles, ex[e].tempFilePath, u1),
                           ex[e].downloadedFilePath, u2)
        /\ ex' = [ex EXCEPT ![e] =
              IF out.raised
              THEN [innerCatch(@, out.message) EXCEPT !.out = out, !.extracted = TRUE]
              ELSE [@ EXCEPT !.pc = "done", !.status = 200, !.out = out,
                             !.extracted = TRUE, !.extractedText = out.text]]
    /\ UNCHANGED storage
    /\ UNCHANGED notExtract

\* storageService.deleteFile returned (true or false, not looked at); the 400
\* is sent, or the error is rethrown to the outer catch block.
ExDeleteResolved(e, removeError) ==
    /\ ex[e].pc = "delete"
    /\ storage' = IF removeError THEN storage ELSE storage \ {ex[e].storageInfo}
    /\ \E u \in UnlinkThrows :
        tempFiles' = IF ex[e].after = 500
                     THEN cleanupTempFile(tempFiles, ex[e].tempFilePath, u)
                     ELSE tempFiles
    /\ ex' = [ex EXCEPT ![e].pc = "done", ![e].status = ex[e].after]
    /\ UNCHANGED notExtract

\* The response has been sent; the slot serves the next request.
ExFinished(e) ==
    /\ ex[e].pc = "done"
    /\ ex' = [ex EXCEPT ![e] = IdleEx]
    /\ UNCHANGED fsVars
    /\ UNCHANGED notExtract

NextExtract ==
    \/ \E e \in ExSlots : ExNoFile(e)
    \/ \E e \in ExSlots, f \in ExFiles : ExRefused(e, f)
    \/ \E e \in ExSlots, f \in ExFiles, sid \in ScratchIds, readThrows \in BOOLEAN :
          ExArrive(e, f, sid, readThrows)
    \/ \E e \in ExSlots, key \in Keys, backendError \in BOOLEAN :
          ExUploadResolved(e, key, backendError)
    \/ \E e \in ExSlots,
          dl \in {"ok", "error", "write throws", "write throws, file left"} :
          ExDownloadResolved(e, dl)
    \/ \E e \in ExSlots, out \in ExOutcomes : ExExtractResolved(e, out)
    \/ \E e \in ExSlots, removeError \in BOOLEAN : ExDeleteResolved(e, removeError)
    \/ \E e \in ExSlots : ExFinished(e)

SpecExtract == InitExtract /\ [][NextExtract]_vars

(***************************************************************************)
(* C5: once a POST /extract request has been answered, neither the scratch *)
(* file multer wrote for it nor the scratch file its downloadFile call     *)
(* created is left on disk, whatever the exit path.                        *)
(***************************************************************************)
C5_ExtractScratchRemoved ==
    \A e \in ExSlots : ex[e].pc = "done" =>
        /\ ex[e].tempFilePath \notin tempFiles
        /\ ex[e].storageInfo # Null => tempFileName(ex[e].storageInfo) \notin tempFiles

(***************************************************************************)
(* C8: when the extractor returns text of trimmed length below 50, or      *)
(* raises, the text the request returns is the descriptive fallback, which *)
(* names the original file and its size.                                   *)
(***************************************************************************)
ExtractorRan(e) == ex[e].pc = "done" /\ ex[e].extracted

C8_ShortOrFailedGivesFallback ==
    \A e \in ExSlots :
        (ExtractorRan(e) /\ (ex[e].out.raised \/ Len(trim(ex[e].out.text)) < 50)) =>
            /\ IsFallback(ex[e].extractedText)
            /\ Contains(ex[e].extractedText, ex[e].file.originalname)
            /\ Contains(ex[e].extractedText,
                        ToString(MathRoundDiv(ex[e].file.size, BytesPerKB)))

(***************************************************************************)
(* C9: a failure raised by a format extractor never produces an HTTP error *)
(* response; the request is answered with fallback text.                   *)
(***************************************************************************)
C9_ExtractorFailureRecovered ==
    \A e \in ExSlots :
        (ExtractorRan(e) /\ ex[e].out.raised) =>
            (ex[e].status < 400 /\ IsFallback(ex[e].extractedText))


(***************************************************************************)
(* C10: a request whose file has a declared type without extractor is      *)
(* answered 400 (unsupported type) and gets no fallback text.              *)
(***************************************************************************)
C10_NoExtractorIs400 ==
    \A e \in ExSlots :
        (ex[e].pc = "done" /\ ex[e].file # NoFile
            /\ getServiceForFile(ex[e].file.mimetype) = None) =>
            (ex[e].status = 400 /\ ~IsFallback(ex[e].extractedText))

(***************************************************************************)
(* POST /api/documents and DELETE /api/documents/:id (routes/documents.js) *)
(* with their middleware chain.                                            *)
(***************************************************************************)
\* RATE_LIMITS.UPLOAD of routes/documents.js.
UPLOAD_maxRequests == 10
UPLOAD_windowMs == 60000

\* constants.FILES.MAX_SIZE
MAX_SIZE_PDF == 10485760
MAX_SIZE_DOCUMENT == 52428800
MAX_SIZE_IMAGE == 8388608

ALLOWED_TYPES_PDF == {PdfType}
ALLOWED_TYPES_DOCUMENT == {DocType, DocxType, PlainType}
ALLOWED_TYPES_IMAGE == {PngType, JpegType}

\* The fileFilter of the multer instance of routes/documents.js.
UploadAllowedTypes == ALLOWED_TYPES_PDF \cup ALLOWED_TYPES_DOCUMENT

getMaxFileSize(mimetype) ==
    IF mimetype \in ALLOWED_TYPES_PDF THEN MAX_SIZE_PDF
    ELSE IF mimetype \in ALLOWED_TYPES_DOCUMENT THEN MAX_SIZE_DOCUMENT
    ELSE IF mimetype \in ALLOWED_TYPES_IMAGE THEN MAX_SIZE_IMAGE
    ELSE MAX_SIZE_DOCUMENT

isAllowedFileType(mimetype) ==
    mimetype \in ALLOWED_TYPES_PDF \cup ALLOWED_TYPES_DOCUMENT \cup ALLOWED_TYPES_IMAGE

\* validateFile: the answer it sends, or None when it calls next().
validateFile(f) ==
    IF f = NoFile THEN None
    ELSE IF f.size > getMaxFileSize(f.mimetype) THEN "File size exceeds limit"
    ELSE IF ~isAllowedFileType(f.mimetype) THEN "Invalid file type"
    ELSE None

\* Joi.boolean().default(false) under convert: true.
JoiBoolean(raw) ==
    IF raw = None THEN [type |-> "boolean", v |-> "false"]
    ELSE [type |-> "boolean", v |-> raw]

\* validate(uploadDocument): title is required; the body is replaced by the
\* converted value.
titleValid(title) == title # None

strictEquals(a, b) == a.type = b.type /\ a.v = b.v

uploadKey_shared(user) == <<"upload", "all">>

\* `upload:${user.id}`
uploadKey(user) == <<"upload", user>>

\* `${user.id}/${Date.now()}-${random}${fileExt}`
documentPath(user, n) == <<user, n>>

PostFiles ==
    {NoFile} \cup
    {[mimetype |-> m, originalname |-> "report.pdf", size |-> sz] :
        m \in {PdfType, PngType}, sz \in {2048, MAX_SIZE_PDF + 1, MAX_SIZE_DOCUMENT + 1}}

PostOutcomes ==
    {[raised |-> FALSE, text |-> Letters(TextThreshold), message |-> None],
     [raised |-> TRUE, text |-> <<>>, message |-> "bad XRef entry"]}

Tokens == {None, "invalid"} \cup Users

\* What the profiles query returns for an authenticated user.
Profiles ==
    {[found |-> FALSE, status |-> None, role |-> None],
     [found |-> TRUE, status |-> "pending", role |-> "user"],
     [found |-> TRUE, status |-> "approved", role |-> "user"],
     [found |-> TRUE, status |-> "approved", role |-> "admin"]}

DocIds == 1..MaxDocs

Init ==
    /\ tempFiles = {} /\ storage = {} /\ documents = {}
    /\ post = [p \in PostSlots |-> IdlePost]
    /\ del = [d \in DelSlots |-> IdleDel]
    /\ requests = EmptyMap /\ now = 0
    /\ maxRequests = UPLOAD_maxRequests /\ windowMs = UPLOAD_windowMs
    /\ callers = [c \in Callers |-> IdleCaller]
    /\ admitLog = [k \in LimiterKeys |-> <<>>]
    /\ file = NoFile /\ outcome = NoOutcome /\ result = NoResult
    /\ ex = [e \in ExSlots |-> IdleEx]
    /\ conversations = {} /\ api = NoRequest

\* res.status(status) sent on the named exit path.  Of the handler's locals
\* only the paths of what it created are kept for the answered request.
respond(slot, status, exit) ==
    [IdlePost EXCEPT !.pc = "done", !.status = status, !.exit = exit,
                     !.path = slot.path, !.filePath = slot.filePath,
                     !.insertFailed = slot.insertFailed]

\* The request passes uploadRateLimit, upload.single('file'), validateFile and
\* validate(uploadDocument), and the handler runs up to its first await.
PostArrive(p, ipLimited, f, title, isCompanyWide, token, sid) ==
    /\ post[p].pc = "idle"
    /\ f # NoFile => uploadPath(sid) \notin tempFiles
    /\ LET written == f # NoFile /\ f.mimetype \in UploadAllowedTypes
                                 /\ f.size <= MAX_SIZE_DOCUMENT
           slot == [IdlePost EXCEPT !.file = f, !.title = title, !.token = token,
                                    !.isCompanyWide = JoiBoolean(isCompanyWide),
                                    !.path = IF written THEN uploadPath(sid) ELSE Null]
           onDisk == IF written THEN tempFiles \cup {uploadPath(sid)} ELSE tempFiles
       IN  IF ipLimited
           THEN /\ post' = [post EXCEPT ![p] =
                                respond([slot EXCEPT !.path = Null], 429, "uploadRateLimit")]
                /\ UNCHANGED tempFiles
           ELSE IF f # NoFile /\ ~written
           THEN /\ post' = [post EXCEPT ![p] = respond(slot, 500, "multer")]
                /\ UNCHANGED tempFiles
           ELSE IF validateFile(f) # None
           THEN /\ post' = [post EXCEPT ![p] = respond(slot, 400, "validateFile")]
                /\ tempFiles' = onDisk
           ELSE IF ~titleValid(title)
           THEN /\ post' = [post EXCEPT ![p] = respond(slot, 400, "validate")]
                /\ tempFiles' = onDisk
           ELSE IF f = NoFile \/ title = None
           THEN /\ post' = [post EXCEPT ![p] = respond(slot, 400, "missing file")]
                /\ tempFiles' = onDisk
           ELSE IF token = None
           THEN /\ \E u \in UnlinkThrows :
                     tempFiles' = cleanupTempFile(onDisk, slot.path, u)
                /\ post' = [post EXCEPT ![p] = respond(slot, 401, "no bearer token")]
           ELSE /\ post' = [post EXCEPT ![p] = [slot EXCEPT !.pc = "auth"]]
                /\ tempFiles' = onDisk
    /\ UNCHANGED <<storage, documents, del, requests, now>>
    /\ UNCHANGED notDocs

authenticated_errorOnly(user, authError) == ~authError

\* The negation of `authError || !user`: getUser resolves only valid tokens.
authenticated(user, authError) == ~(authError \/ user \notin Users)

approved_anyProfile(profile) == profile.found

\* The negation of `!profile || profile.status !== 'approved'`.
approved(profile) == ~(~profile.found \/ profile.status # "approved")

\* supabase.auth.getUser returned; the limiter is asked in the same
\* continuation; then the profile query is sent.
PostAuthResolved(p, authError) ==
    /\ post[p].pc = "auth"
    /\ LET user == post[p].token
           key == uploadKey(user)
       IN  IF ~authenticated(user, authError)
           THEN /\ \E u \in UnlinkThrows :
                     tempFiles' = cleanupTempFile(tempFiles, post[p].path, u)
                /\ post' = [post EXCEPT ![p] = respond(@, 401, "getUser")]
                /\ UNCHANGED requests
           ELSE /\ requests' = requestsAfter(requests, key, UPLOAD_maxRequests,
                                             UPLOAD_windowMs, now)
                /\ IF isAllowed(requests, key, UPLOAD_maxRequests, UPLOAD_windowMs, now)
                   THEN /\ post' = [post EXCEPT ![p].pc = "profile"]
                        /\ UNCHANGED tempFiles
                   ELSE /\ \E u \in UnlinkThrows :
                             tempFiles' = cleanupTempFile(tempFiles, post[p].path, u)
                        /\ post' = [post EXCEPT ![p] = respond(@, 429, "isAllowed")]
    /\ UNCHANGED <<storage, documents, del, now>>
    /\ UNCHANGED notDocs

\* The profile query returned; extractTextFromFile is called and awaited.
PostProfileResolved(p, profile) ==
    /\ post[p].pc = "profile"
    /\ IF ~approved(profile)
       THEN /\ \E u \in UnlinkThrows :
                 tempFiles' = cleanupTempFile(tempFiles, post[p].path, u)
            /\ post' = [post EXCEPT ![p] = respond(@, 403, "profile")]
       ELSE /\ post' = [post EXCEPT ![p].pc = "extract",
                                    ![p].profileStatus = profile.status]
            /\ UNCHANGED tempFiles
    /\ UNCHANGED <<storage, documents, del, requests, now>>
    /\ UNCHANGED notDocs

\* extractTextFromFile returned (it never throws); the storage path is made,
\* the scratch file is read and the upload is sent.  A throwing read reaches
\* the handler's catch block.
PostExtractResolved(p, out, n, readThrows) ==
    /\ post[p].pc = "extract"
    /\ LET text == extractTextFromFile(post[p].file, out)
       IN  IF readThrows
           THEN /\ \E u \in UnlinkThrows :
                     tempFiles' = cleanupTempFile(tempFiles, post[p].path, u)
                /\ post' = [post EXCEPT ![p] = respond(@, 500, "catch")]
           ELSE /\ post' = [post EXCEPT ![p].pc = "upload",
                                        ![p].extractedText = text,
                                        ![p].filePath = documentPath(post[p].token, n)]
                /\ UNCHANGED tempFiles
    /\ UNCHANGED <<storage, documents, del, requests, now>>
    /\ UNCHANGED notDocs

\* The storage upload returned (upsert: false refuses an existing key); on
\* success the insert is sent.
PostUploadResolved(p, backendError) ==
    /\ post[p].pc = "upload"
    /\ IF backendError \/ post[p].filePath \in storage
       THEN /\ \E u \in UnlinkThrows :
                 tempFiles' = cleanupTempFile(tempFiles, post[p].path, u)
            /\ post' = [post EXCEPT ![p] = respond(@, 500, "uploadError")]
            /\ UNCHANGED storage
       ELSE /\ storage' = storage \cup {post[p].filePath}
            /\ post' = [post EXCEPT ![p].pc = "insert"]
            /\ UNCHANGED tempFiles
    /\ UNCHANGED <<documents, del, requests, now>>
    /\ UNCHANGED notDocs

documentRow_scratchPath(slot, id) ==
    [id |-> id, user_id |-> slot.token, title |-> slot.title,
     content |-> slot.extractedText, file_path |-> slot.path,
     file_size |-> slot.file.size, file_type |-> slot.file.mimetype,
     is_company_wide |-> strictEquals(slot.isCompanyWide,
                                      [type |-> "string", v |-> "true"])]

\* The object given to insert(); uploadData.path is the path uploaded to.
documentRow(slot, id) ==
    [id |-> id, user_id |-> slot.token, title |-> slot.title,
     content |-> slot.extractedText, file_path |-> slot.filePath,
     file_size |-> slot.file.size, file_type |-> slot.file.mimetype,
     is_company_wide |-> strictEquals(slot.isCompanyWide,
                                      [type |-> "string", v |-> "true"])]

\* The insert returned.  On dbError the uploaded object's removal is sent and
\* awaited; otherwise the scratch file is removed and the row returned.
PostInsertResolved(p, dbError, id) ==
    /\ post[p].pc = "insert"
    /\ IF dbError
       THEN /\ post' = [post EXCEPT ![p].pc = "rollback", ![p].insertFailed = TRUE]
            /\ UNCHANGED <<documents, tempFiles>>
       ELSE /\ \A row \in documents : row.id # id
            /\ documents' = documents \cup {documentRow(post[p], id)}
            /\ \E u \in UnlinkThrows :
                 tempFiles' = cleanupTempFile(tempFiles, post[p].path, u)
            /\ post' = [post EXCEPT ![p] = respond(@, 200, "success")]
    /\ UNCHANGED <<storage, del, requests, now>>
    /\ UNCHANGED notDocs

\* `await supabase.storage.from('documents').remove([uploadData.path])`
\* returned; what it returned is not looked at.
PostRollbackResolved(p, removeError) ==
    /\ post[p].pc = "rollback"
    /\ storage' = IF removeError THEN storage ELSE storage \ {post[p].filePath}
    /\ \E u \in UnlinkThrows :
         tempFiles' = cleanupTempFile(tempFiles, post[p].path, u)
    /\ post' = [post EXCEPT ![p] = respond(@, 500, "dbError")]
    /\ UNCHANGED <<documents, del, requests, now>>
    /\ UNCHANGED notDocs

\* The response has been sent; the slot serves the next request.
PostFinished(p) ==
    /\ post[p].pc = "done"
    /\ post' = [post EXCEPT ![p] = IdlePost]
    /\ UNCHANGED <<fsVars, documents, del, requests, now>>
    /\ UNCHANGED notDocs

\* res.status(status) sent by the DELETE handler.
answer(slot, status) ==
    [IdleDel EXCEPT !.pc = "done", !.status = status, !.id = slot.id,
                    !.role = slot.role, !.file_path = slot.file_path,
                    !.removed = slot.removed]

\* DELETE /api/documents/:id up to its first await.
DelArrive(d, id, token) ==
    /\ del[d].pc = "idle"
    /\ del' = [del EXCEPT ![d] =
          IF token = None
          THEN answer([IdleDel EXCEPT !.id = id], 401)
          ELSE [IdleDel EXCEPT !.pc = "auth", !.id = id, !.token = token]]
    /\ UNCHANGED <<fsVars, documents, post, requests, now>>
    /\ UNCHANGED notDocs

\* supabase.auth.getUser returned; the profile query is sent.
DelAuthResolved(d, authError) ==
    /\ del[d].pc = "auth"
    /\ del' = [del EXCEPT ![d] =
          IF authError \/ del[d].token \notin Users
          THEN answer(@, 401)
          ELSE [@ EXCEPT !.pc = "profile"]]
    /\ UNCHANGED <<fsVars, documents, post, requests, now>>
    /\ UNCHANGED notDocs

\* The profile query returned; the document's row is asked for.
DelProfileResolved(d, profile) ==
    /\ del[d].pc = "profile"
    /\ del' = [del EXCEPT ![d] =
          IF ~profile.found \/ profile.status # "approved"
          THEN answer(@, 403)
          ELSE [@ EXCEPT !.pc = "fetch", !.role = profile.role]]
    /\ UNCHANGED <<fsVars, documents, post, requests, now>>
    /\ UNCHANGED notDocs

\* .eq('id', id) on the documents table.
rowsWithId(rows, id) == {row \in rows : row.id = id}

mayDelete_anyApproved(document, user, role) == TRUE

\* The negation of `document.user_id !== user.id && profile.role !== 'admin'`.
mayDelete(document, user, role) == ~(document.user_id # user /\ role # "admin")

\* The row came back, as the table holds it then; the owner-or-admin test
\* follows and the object's removal is sent.
DelFetchResolved(d, fetchError) ==
    /\ del[d].pc = "fetch"
    /\ LET found == rowsWithId(documents, del[d].id)
           user == del[d].token
           role == del[d].role
       IN  del' = [del EXCEPT ![d] =
              IF fetchError \/ found = {}
              THEN answer(@, 404)
              ELSE LET document == CHOOSE row \in found : TRUE
                   IN  IF ~mayDelete(document, user, role)
                       THEN answer(@, 403)
                       ELSE [@ EXCEPT !.pc = "remove",
                                      !.file_path = document.file_path]]
    /\ UNCHANGED <<fsVars, documents, post, requests, now>>
    /\ UNCHANGED notDocs

\* The storage removal returned; storageError is only logged and the row's
\* deletion is sent.
DelRemoveResolved(d, storageError) ==
    /\ del[d].pc = "remove"
    /\ storage' = IF storageError THEN storage ELSE storage \ {del[d].file_path}
    /\ del' = [del EXCEPT ![d].pc = "delete", ![d].removed = ~storageError]
    /\ UNCHANGED <<tempFiles, documents, post, requests, now>>
    /\ UNCHANGED notDocs

deleteStatus_alwaysSuccess(dbError) == 200

\* 500 with dbError.message, else { success: true }.
deleteStatus(dbError) == IF dbError THEN 500 ELSE 200

\* The row's deletion returned.
DelDeleteResolved(d, dbError) ==
    /\ del[d].pc = "delete"
    /\ documents' = IF dbError THEN documents
                    ELSE documents \ rowsWithId(documents, del[d].id)
    /\ del' = [del EXCEPT ![d] = answer(@, deleteStatus(dbError))]
    /\ UNCHANGED <<fsVars, post, requests, now>>
    /\ UNCHANGED notDocs

\* The response has been sent; the slot serves the next request.
DelFinished(d) ==
    /\ del[d].pc = "done"
    /\ del' = [del EXCEPT ![d] = IdleDel]
    /\ UNCHANGED <<fsVars, documents, post, requests, now>>
    /\ UNCHANGED notDocs

Next ==
    \/ \E p \in PostSlots, ipLimited \in BOOLEAN, f \in PostFiles,
          title \in {None, "Q3 report"}, isCompanyWide \in {None, "true"},
          token \in {None, "invalid", "alice"}, sid \in ScratchIds :
          PostArrive(p, ipLimited, f, title, isCompanyWide, token, sid)
    \/ \E p \in PostSlots, authError \in BOOLEAN : PostAuthResolved(p, authError)
    \/ \E p \in PostSlots, profile \in Profiles : PostProfileResolved(p, profile)
    \/ \E p \in PostSlots, out \in PostOutcomes, n \in 1..MaxPaths, readThrows \in BOOLEAN :
          PostExtractResolved(p, out, n, readThrows)
    \/ \E p \in PostSlots, backendError \in BOOLEAN : PostUploadResolved(p, backendError)
    \/ \E p \in PostSlots, dbError \in BOOLEAN, id \in DocIds :
          PostInsertResolved(p, dbError, id)
    \/ \E p \in PostSlots, removeError \in BOOLEAN : PostRollbackResolved(p, removeError)
    \/ \E p \in PostSlots : PostFinished(p)
    \/ \E d \in DelSlots, id \in DocIds, token \in Tokens : DelArrive(d, id, token)
    \/ \E d \in DelSlots, authError \in BOOLEAN : DelAuthResolved(d, authError)
    \/ \E d \in DelSlots, profile \in Profiles : DelProfileResolved(d, profile)
    \/ \E d \in DelSlots, fetchError \in BOOLEAN : DelFetchResolved(d, fetchError)
    \/ \E d \in DelSlots, storageError \in BOOLEAN : DelRemoveResolved(d, storageError)
    \/ \E d \in DelSlots, dbError \in BOOLEAN : DelDeleteResolved(d, dbError)
    \/ \E d \in DelSlots : DelFinished(d)

Spec == Init /\ [][Next]_vars

\* POST /api/documents alone, with its requests interleaved.
NextUpload ==
    \/ \E p \in PostSlots, ipLimited \in BOOLEAN, f \in PostFiles,
          title \in {None, "Q3 report"}, isCompanyWide \in {None, "true"},
          token \in {None, "invalid", "alice"}, sid \in ScratchIds :
          PostArrive(p, ipLimited, f, title, isCompanyWide, token, sid)
    \/ \E p \in PostSlots, authError \in BOOLEAN : PostAuthResolved(p, authError)
    \/ \E p \in PostSlots, profile \in Profiles : PostProfileResolved(p, profile)
    \/ \E p \in PostSlots, out \in PostOutcomes, n \in 1..MaxPaths, readThrows \in BOOLEAN :
          PostExtractResolved(p, out, n, readThrows)
    \/ \E p \in PostSlots, backendError \in BOOLEAN : PostUploadResolved(p, backendError)
    \/ \E p \in PostSlots, dbError \in BOOLEAN, id \in DocIds :
          PostInsertResolved(p, dbError, id)
    \/ \E p \in PostSlots, removeError \in BOOLEAN : PostRollbackResolved(p, removeError)
    \/ \E p \in PostSlots : PostFinished(p)

SpecUpload == Init /\ [][NextUpload]_vars

(***************************************************************************)
(* C11: POST /api/documents short-circuits on identity failures.  A        *)
(* request whose bearer token is missing or invalid never gets past the    *)
(* authentication and only a request whose profile is 'approved' gets past *)
(* the profile check; the step that answers 401 or 403 changes neither the *)
(* bucket nor the documents table, and the request it answers has made no  *)
(* storage path, so it has uploaded no object and inserted no row.         *)
(***************************************************************************)
Answers(p, statuses) ==
    post[p].pc # "done" /\ post'[p].pc = "done" /\ post'[p].status \in statuses

C11_IdentityFailuresTouchNothing ==
    [][\A p \in PostSlots :
        /\ (post'[p].pc \notin {"idle", "done"} /\ post'[p].token \notin Users)
              => (post'[p].pc = "auth" /\ post'[p].filePath = Null)
        /\ (post[p].pc = "auth" /\ post[p].token \notin Users /\ post'[p] # post[p])
              => post'[p].status = 401
        /\ post'[p].pc \in {"extract", "upload", "insert", "rollback"}
              => post'[p].profileStatus = "approved"
        /\ Answers(p, {401, 403})
              => /\ storage' = storage /\ documents' = documents
                 /\ post[p].filePath = Null /\ post'[p].filePath = Null
                 /\ post[p].pc \in {"idle", "auth", "profile"}
    ]_vars

\* A 403 has been answered to a request whose scratch file had been written,
\* while the bucket holds an object of an earlier request.
C11_Witness ==
    \E p \in PostSlots :
        /\ post[p].pc = "done" /\ post[p].status = 403 /\ post[p].exit = "profile"
        /\ post[p].path # Null /\ storage # {}

(***************************************************************************)
(* C2: when the metadata insert of POST /api/documents fails after the     *)
(* object was uploaded, the object's key is no longer in storage once the  *)
(* request has been answered, also when the compensating removal reports   *)
(* an error.                                                               *)
(***************************************************************************)
C2_RollbackLeavesNoObject ==
    \A p \in PostSlots :
        (post[p].pc = "done" /\ post[p].insertFailed) => post[p].filePath \notin storage

(***************************************************************************)
(* C3: in every reachable state every row of the documents table has a     *)
(* file_path whose object exists in storage.                               *)
(***************************************************************************)
C3_RowsReferToObjects == \A row \in documents : row.file_path \in storage

(***************************************************************************)
(* C4: once a POST /api/documents request for which a scratch file was     *)
(* written has been answered, that scratch file no longer exists, on every *)
(* exit path.                                                              *)
(***************************************************************************)
C4_UploadScratchRemoved ==
    \A p \in PostSlots :
        (post[p].pc = "done" /\ post[p].path # Null) => post[p].path \notin tempFiles

(***************************************************************************)
(* GET /api/documents (routes/documents.js).                               *)
(***************************************************************************)
\* A row of the documents table as router.post('/') inserts it.  The table
\* is also written by the other clients of the database, so is_company_wide
\* takes both values.
storedRow(id, owner, companyWide) ==
    [id |-> id, user_id |-> owner, title |-> "Q3 report",
     content |-> Letters(TextThreshold), file_path |-> documentPath(owner, id),
     file_size |-> 2048, file_type |-> PdfType, is_company_wide |-> companyWide]

RowIds == 1..MaxRows

\* The tables the handlers may find: at most one row per id.
Tables ==
    {rows \in SUBSET {storedRow(id, o, cw) : id \in RowIds, o \in Users, cw \in BOOLEAN} :
        \A r1, r2 \in rows : r1.id = r2.id => r1 = r2}

\* Everything but the documents table and the request in flight is at rest.
RestIdle ==
    /\ requests = EmptyMap /\ now = 0 /\ maxRequests = 0 /\ windowMs = 0
    /\ callers = [c \in Callers |-> IdleCaller]
    /\ admitLog = [k \in LimiterKeys |-> <<>>]
    /\ file = NoFile /\ outcome = NoOutcome /\ result = NoResult
    /\ tempFiles = {} /\ ex = [e \in ExSlots |-> IdleEx]
    /\ post = [p \in PostSlots |-> IdlePost] /\ del = [d \in DelSlots |-> IdleDel]
    /\ conversations = {}

InitList ==
    /\ documents \in Tables
    /\ storage = {row.file_path : row \in documents}
    /\ api = NoRequest
    /\ RestIdle

\* The filters the handler puts on the query, in the order of its else-if
\* chain.
listQuery(rows, user, role, userId, companyWideOnly) ==
    IF companyWideOnly = "true" THEN {row \in rows : row.is_company_wide}
    ELSE IF userId # None THEN {row \in rows : row.user_id = userId}
    ELSE IF role # "admin"
         THEN {row \in rows : row.user_id = user \/ row.is_company_wide}
    ELSE rows

\* The response of a handler of this group.
reply(req, status) == [req EXCEPT !.pc = "done", !.status = status]

\* The handler up to `await supabase.auth.getUser(token)`.
ListArrive(token, userId, companyWideOnly) ==
    /\ api.pc = "idle"
    /\ LET req == [pc |-> "auth", route |-> "GET /api/documents", token |-> token,
                   userId |-> userId, companyWideOnly |-> companyWideOnly,
                   role |-> None, status |-> 0, data |-> {}]
       IN  api' = IF token = None THEN reply(req, 401) ELSE req
    /\ UNCHANGED conversations
    /\ UNCHANGED notApi

ListAuthResolved(authError) ==
    /\ api.pc = "auth"
    /\ api' = IF ~authenticated(api.token, authError)
              THEN reply(api, 401)
              ELSE [api EXCEPT !.pc = "profile"]
    /\ UNCHANGED conversations
    /\ UNCHANGED notApi

\* The profile came back; the query is built and sent.
ListProfileResolved(profile) ==
    /\ api.pc = "profile"
    /\ api' = IF ~approved(profile)
              THEN reply(api, 403)
              ELSE [api EXCEPT !.pc = "query", !.role = profile.role]
    /\ UNCHANGED conversations
    /\ UNCHANGED notApi

\* The query came back, answered from the table as it is then.
ListQueryResolved(error) ==
    /\ api.pc = "query"
    /\ api' = IF error
              THEN reply(api, 500)
              ELSE [reply(api, 200) EXCEPT
                      !.data = listQuery(documents, api.token, api.role,
                                         api.userId, api.companyWideOnly)]
    /\ UNCHANGED conversations
    /\ UNCHANGED notApi

\* The response has been sent.
ApiFinished ==
    /\ api.pc = "done"
    /\ api' = NoRequest
    /\ UNCHANGED conversations
    /\ UNCHANGED notApi

NextList ==
    \/ \E token \in Tokens, userId \in {None} \cup Users, companyWideOnly \in {None, "true"} :
          ListArrive(token, userId, companyWideOnly)
    \/ \E authError \in BOOLEAN : ListAuthResolved(authError)
    \/ \E profile \in Profiles : ListProfileResolved(profile)
    \/ \E error \in BOOLEAN : ListQueryResolved(error)
    \/ ApiFinished

SpecList == InitList /\ [][NextList]_vars

(***************************************************************************)
(* C12: whatever the query parameters userId and companyWideOnly, a caller *)
(* who is not admin receives only rows that are their own or company-wide. *)
(***************************************************************************)
C12_NonAdminSeesOwnOrCompanyWide ==
    (api.pc = "done" /\ api.status = 200 /\ api.role # "admin") =>
        \A row \in api.data : row.user_id = api.token \/ row.is_company_wide

(***************************************************************************)
(* DELETE /api/documents/:id alone, over the tables uploads leave behind.  *)
(***************************************************************************)
InitDelete ==
    /\ documents \in Tables
    /\ storage = {row.file_path : row \in documents}
    /\ del = [d \in DelSlots |-> IdleDel]
    /\ requests = EmptyMap /\ now = 0 /\ maxRequests = 0 /\ windowMs = 0
    /\ callers = [c \in Callers |-> IdleCaller]
    /\ admitLog = [k \in LimiterKeys |-> <<>>]
    /\ file = NoFile /\ outcome = NoOutcome /\ result = NoResult
    /\ tempFiles = {} /\ ex = [e \in ExSlots |-> IdleEx]
    /\ post = [p \in PostSlots |-> IdlePost]
    /\ conversations = {} /\ api = NoRequest

NextDelete ==
    \/ \E d \in DelSlots, id \in RowIds, token \in Tokens : DelArrive(d, id, token)
    \/ \E d \in DelSlots, authError \in BOOLEAN : DelAuthResolved(d, authError)
    \/ \E d \in DelSlots, profile \in Profiles : DelProfileResolved(d, profile)
    \/ \E d \in DelSlots, fetchError \in BOOLEAN : DelFetchResolved(d, fetchError)
    \/ \E d \in DelSlots, storageError \in BOOLEAN : DelRemoveResolved(d, storageError)
    \/ \E d \in DelSlots, dbError \in BOOLEAN : DelDeleteResolved(d, dbError)
    \/ \E d \in DelSlots : DelFinished(d)

SpecDelete == InitDelete /\ [][NextDelete]_vars

\* The handler of slot d takes this step.
DelSteps(d) == del'[d] # del[d]

(***************************************************************************)
(* C13: DELETE is owner-or-admin only.  A caller who neither owns the row  *)
(* nor is admin is refused (403, or 404 when the fetch fails), and the     *)
(* step that answers 401, 403 or 404 leaves the bucket and the table as    *)
(* they are, the request having removed nothing before.                    *)
(***************************************************************************)
C13_RefusedDeleteRemovesNothing ==
    [][\A d \in DelSlots :
        /\ (del[d].pc = "fetch" /\ DelSteps(d)
            /\ \E row \in rowsWithId(documents, del[d].id) :
                  row.user_id # del[d].token /\ del[d].role # "admin")
              => (del'[d].pc = "done" /\ del'[d].status \in {403, 404})
        /\ (DelSteps(d) /\ del'[d].pc = "done" /\ del'[d].status \in {401, 403, 404})
              => /\ storage' = storage /\ documents' = documents
                 /\ ~del[d].removed /\ del[d].file_path = Null
                 /\ del[d].pc \in {"idle", "auth", "profile", "fetch"}
    ]_vars

\* An approved caller who is not admin has been refused a document, which
\* is still there with its object.
C13_Witness ==
    \E d \in DelSlots :
        /\ del[d].pc = "done" /\ del[d].status = 403 /\ del[d].role = "user"
        /\ \E row \in rowsWithId(documents, del[d].id) : row.file_path \in storage

(***************************************************************************)
(* C14: an authorized DELETE removes the object first and the row second;  *)
(* an error of the object's removal does not stop the row's deletion; the  *)
(* answer is success (200) when the row's deletion succeeded and 500 when  *)
(* it failed.                                                              *)
(***************************************************************************)
C14_ObjectThenRow ==
    [][\A d \in DelSlots :
        /\ (del[d].pc = "remove" /\ DelSteps(d))
              => (del'[d].pc = "delete" /\ documents' = documents)
        /\ (del[d].pc = "delete" /\ DelSteps(d))
              => /\ del'[d].pc = "done" /\ storage' = storage
                 /\ del'[d].status \in {200, 500}
                 /\ del'[d].status = 200 => rowsWithId(documents', del[d].id) = {}
                 /\ del'[d].status = 500 => documents' = documents
        /\ (DelSteps(d) /\ storage' # storage) => del[d].pc = "remove"
        /\ (DelSteps(d) /\ documents' # documents) => del[d].pc = "delete"
    ]_vars

\* The object's removal failed, the row's deletion went through: 200, the
\* row is gone and its object is still in the bucket.
C14_Witness ==
    \E d \in DelSlots :
        /\ del[d].pc = "done" /\ del[d].status = 200 /\ ~del[d].removed
        /\ del[d].file_path \in storage
        /\ rowsWithId(documents, del[d].id) = {}

(***************************************************************************)
(* POST /api/documents/url (routes/documents.js).                          *)
(***************************************************************************)
\* createSignedUrl(filePath, 3600): one hour.
SignedUrlExpiry == 3600

NoUrl == [path |-> Null, expiresIn |-> 0]
NoRow == [id |-> 0]

\* .single(): the row, or an error unless exactly one row matches.
single(rows) == IF Cardinality(rows) = 1 THEN CHOOSE row \in rows : TRUE ELSE NoRow

rowsWithPath(rows, filePath) == {row \in rows : row.file_path = filePath}

hasAccess_everyone(document, user, role) == TRUE

hasAccess(document, user, role) ==
    document.user_id = user \/ document.is_company_wide \/ role = "admin"

\* The paths a caller may ask for: of every row a table may hold.
FilePaths == {documentPath(o, id) : o \in Users, id \in RowIds}

InitUrl ==
    /\ documents \in Tables
    /\ storage = {row.file_path : row \in documents}
    /\ api = NoRequest
    /\ RestIdle

\* The handler up to `await supabase.auth.getUser(token)`.
UrlArrive(filePath, token) ==
    /\ api.pc = "idle"
    /\ LET req == [pc |-> "auth", route |-> "POST /api/documents/url", token |-> token,
                   filePath |-> filePath, role |-> None, signCalls |-> 0,
                   status |-> 0, url |-> NoUrl]
       IN  api' = IF filePath = Null THEN reply(req, 400)
                  ELSE IF token = None THEN reply(req, 401)
                  ELSE req
    /\ UNCHANGED conversations
    /\ UNCHANGED notApi

UrlAuthResolved(authError) ==
    /\ api.pc = "auth"
    /\ api' = IF ~authenticated(api.token, authError)
              THEN reply(api, 401)
              ELSE [api EXCEPT !.pc = "profile"]
    /\ UNCHANGED conversations
    /\ UNCHANGED notApi

\* The profile came back; the row referring to the path is asked for.
UrlProfileResolved(profile) ==
    /\ api.pc = "profile"
    /\ api' = IF ~approved(profile)
              THEN reply(api, 403)
              ELSE [api EXCEPT !.pc = "fetch", !.role = profile.role]
    /\ UNCHANGED conversations
    /\ UNCHANGED notApi

\* The row came back; with access the signed URL is asked for.
UrlFetchResolved(docError) ==
    /\ api.pc = "fetch"
    /\ LET document == single(rowsWithPath(documents, api.filePath))
       IN  api' = IF docError \/ document = NoRow THEN reply(api, 404)
                  ELSE IF ~hasAccess(document, api.token, api.role) THEN reply(api, 403)
                  ELSE [api EXCEPT !.pc = "sign", !.signCalls = @ + 1]
    /\ UNCHANGED conversations
    /\ UNCHANGED notApi

\* createSignedUrl returned { data } with or without signedUrl.
UrlSignResolved(signed) ==
    /\ api.pc = "sign"
    /\ api' = IF ~signed THEN reply(api, 500)
              ELSE [reply(api, 200) EXCEPT
                      !.url = [path |-> api.filePath, expiresIn |-> SignedUrlExpiry]]
    /\ UNCHANGED conversations
    /\ UNCHANGED notApi

NextUrl ==
    \/ \E filePath \in {Null} \cup FilePaths, token \in Tokens : UrlArrive(filePath, token)
    \/ \E authError \in BOOLEAN : UrlAuthResolved(authError)
    \/ \E profile \in Profiles : UrlProfileResolved(profile)
    \/ \E docError \in BOOLEAN : UrlFetchResolved(docError)
    \/ \E signed \in BOOLEAN : UrlSignResolved(signed)
    \/ ApiFinished

SpecUrl == InitUrl /\ [][NextUrl]_vars

(***************************************************************************)
(* C15: a signed URL is asked for and returned only for a caller who is    *)
(* authenticated and approved and owns the row referring to the path, or   *)
(* whose row is company-wide, or who is admin; it is for that path and     *)
(* expires after one hour (3600 s); every answer other than 200 carries no *)
(* URL, and on 400, 401, 403 and 404 none has been asked for.              *)
(***************************************************************************)
C15_SignedUrlOnlyWithAccess ==
    api.pc # "idle" =>
        /\ (api.signCalls > 0 \/ api.url # NoUrl) =>
              /\ api.token \in Users /\ api.role \in {"user", "admin"}
              /\ \E row \in rowsWithPath(documents, api.filePath) :
                    row.user_id = api.token \/ row.is_company_wide \/ api.role = "admin"
        /\ api.url # NoUrl =>
              /\ api.pc = "done" /\ api.status = 200
              /\ api.url = [path |-> api.filePath, expiresIn |-> 3600]
        /\ (api.pc = "done" /\ api.status # 200) => api.url = NoUrl
        /\ (api.pc = "done" /\ api.status \in {400, 401, 403, 404}) => api.signCalls = 0

\* A caller who is not admin got the URL of another user's company-wide
\* document.
C15_Witness ==
    /\ api.pc = "done" /\ api.status = 200 /\ api.url # NoUrl /\ api.role = "user"
    /\ \E row \in rowsWithPath(documents, api.filePath) :
          row.user_id # api.token /\ row.is_company_wide

(***************************************************************************)
(* POST /api/conversations/generate-title (routes/conversations.js).       *)
(* A message's content is the sequence of its words.                       *)
(***************************************************************************)
\* words.slice(0, 8)
TitleWords == 8

ConvIds == 1..MaxConv

NoTitle == [words |-> <<>>, ellipsis |-> FALSE]
OldTitle == [words |-> <<"New", "conversation">>, ellipsis |-> FALSE]

ConvTables ==
    {rows \in SUBSET [id : ConvIds, user_id : Users, title : {OldTitle}] :
        \A r1, r2 \in rows : r1.id = r2.id => r1 = r2}

Words(n) == [i \in 1..n |-> "w"]

\* The request's messages: none, or one or two with short and long contents.
MessageLists ==
    {<<>>} \cup
    {<<[role |-> r, content |-> Words(n)]>> : r \in {"user", "system"},
                                              n \in {1, TitleWords, TitleWords + 1}}
    \cup {<<[role |-> "user", content |-> Words(1)],
            [role |-> "assistant", content |-> Words(TitleWords + 1)]>>}

\* The first line of conversationText without its `user: ` or `assistant: `
\* prefix, split at the blanks; another role's prefix stays as first word.
firstMessageWords(messages) ==
    LET msg == messages[1]
    IN  IF msg.role \in {"user", "assistant"} THEN msg.content
        ELSE <<"system:">> \o msg.content

generateSimpleTitle(messages) ==
    LET words == firstMessageWords(messages)
    IN  [words |-> SubSeq(words, 1, IF Len(words) < TitleWords THEN Len(words) ELSE TitleWords),
         ellipsis |-> Len(words) > TitleWords]

rowsWithConvId(rows, id) == {row \in rows : row.id = id}

ownsConversation_exists(conversation, user) == conversation # NoRow

\* The negation of `!conversation || conversation.user_id !== user.id`.
ownsConversation(conversation, user) ==
    conversation # NoRow /\ conversation.user_id = user

InitTitle ==
    /\ conversations \in ConvTables
    /\ api = NoRequest
    /\ documents = {} /\ storage = {}
    /\ requests = EmptyMap /\ now = 0 /\ maxRequests = 0 /\ windowMs = 0
    /\ callers = [c \in Callers |-> IdleCaller]
    /\ admitLog = [k \in LimiterKeys |-> <<>>]
    /\ file = NoFile /\ outcome = NoOutcome /\ result = NoResult
    /\ tempFiles = {} /\ ex = [e \in ExSlots |-> IdleEx]
    /\ post = [p \in PostSlots |-> IdlePost] /\ del = [d \in DelSlots |-> IdleDel]

\* The handler up to `await supabase.auth.getUser(token)`.
TitleArrive(conversationId, messages, token) ==
    /\ api.pc = "idle"
    /\ LET req == [pc |-> "auth", route |-> "POST /api/conversations/generate-title",
                   token |-> token, conversationId |-> conversationId,
                   messages |-> messages, role |-> None, status |-> 0,
                   title |-> NoTitle]
       IN  api' = IF conversationId = 0 \/ Len(messages) = 0 THEN reply(req, 400)
                  ELSE IF token = None THEN reply(req, 401)
                  ELSE req
    /\ UNCHANGED conversations
    /\ UNCHANGED notApi

TitleAuthResolved(authError) ==
    /\ api.pc = "auth"
    /\ api' = IF ~authenticated(api.token, authError)
              THEN reply(api, 401)
              ELSE [api EXCEPT !.pc = "profile"]
    /\ UNCHANGED conversations
    /\ UNCHANGED notApi

\* The profile came back; the conversation's row is asked for.
TitleProfileResolved(profile) ==
    /\ api.pc = "profile"
    /\ api' = IF ~approved(profile)
              THEN reply(api, 403)
              ELSE [api EXCEPT !.pc = "fetch", !.role = profile.role]
    /\ UNCHANGED conversations
    /\ UNCHANGED notApi

\* The row came back; for the owner the title is made and the update sent.
TitleFetchResolved(convError) ==
    /\ api.pc = "fetch"
    /\ LET conversation == single(rowsWithConvId(conversations, api.conversationId))
       IN  api' = IF convError \/ ~ownsConversation(conversation, api.token)
                  THEN reply(api, 404)
                  ELSE [api EXCEPT !.pc = "update",
                                   !.title = generateSimpleTitle(api.messages)]
    /\ UNCHANGED conversations
    /\ UNCHANGED notApi

\* update({ title }).eq('id', conversationId) returned.
TitleUpdateResolved(updateError) ==
    /\ api.pc = "update"
    /\ conversations' =
          IF updateError THEN conversations
          ELSE {IF row.id = api.conversationId THEN [row EXCEPT !.title = api.title]
                ELSE row : row \in conversations}
    /\ api' = reply(api, IF updateError THEN 500 ELSE 200)
    /\ UNCHANGED notApi

NextTitle ==
    \/ \E conversationId \in {0} \cup ConvIds, messages \in MessageLists, token \in Tokens :
          TitleArrive(conversationId, messages, token)
    \/ \E authError \in BOOLEAN : TitleAuthResolved(authError)
    \/ \E profile \in Profiles : TitleProfileResolved(profile)
    \/ \E convError \in BOOLEAN : TitleFetchResolved(convError)
    \/ \E updateError \in BOOLEAN : TitleUpdateResolved(updateError)
    \/ ApiFinished

SpecTitle == InitTitle /\ [][NextTitle]_vars

(***************************************************************************)
(* C16: an authenticated, approved caller who asks for the title of a      *)
(* conversation of another user, or of none, is answered 404 and never     *)
(* 403, and no row of the conversations table changes; a row changes only  *)
(* when it belongs to the caller and is the one asked for.                 *)
(***************************************************************************)
C16_ForeignConversationIs404 ==
    [][/\ (api.pc = "fetch"
            /\ \A row \in rowsWithConvId(conversations, api.conversationId) :
                  row.user_id # api.token)
          => (api'.pc = "done" /\ api'.status = 404 /\ conversations' = conversations)
       /\ api.pc \in {"fetch", "update"} => api'.status # 403
       /\ \A row \in conversations :
            row \notin conversations' =>
                (row.id = api.conversationId /\ row.user_id = api.token)
    ]_vars

\* An approved caller, admin even, was answered 404 for a conversation of
\* somebody else, whose title is as it was.
C16_Witness ==
    /\ api.pc = "done" /\ api.status = 404 /\ api.role = "admin"
    /\ \E row \in rowsWithConvId(conversations, api.conversationId) :
          row.user_id # api.token /\ row.title = OldTitle

(***************************************************************************)
(* POST /api/chat/stream, context assembly (routes/chat.js).  A string is  *)
(* the sequence of its characters; the context string is the sequence of   *)
(* the blocks that its template strings and joins put together.  In this   *)
(* specification `documents` is the table in the order its rows are        *)
(* returned by a query without ORDER BY.                                   *)
(***************************************************************************)
\* doc.content.trim().length > 20
SufficientLength == 20
\* chunk.content.substring(0, 300)
ExcerptLength == 300
\* searchDocuments(userQuery, documentIds, 0.2, 8)
SearchLimit == 8
\* Joi.array().items(...).max(10)
MaxDocumentIds == 10
\* The similarity scores 0.8, 0.95 and 0.9, in hundredths.
MatchSimilarity == 80
FallbackSimilarity == 95
SearchErrorSimilarity == 90

toLowerCaseChar(ch) ==
    CASE ch = "P" -> "p" [] ch = "D" -> "d" [] ch = "F" -> "f" [] ch = "Q" -> "q"
      [] OTHER -> ch

\* String.prototype.toLowerCase
toLowerCase(str) == [i \in DOMAIN str |-> toLowerCaseChar(str[i])]

\* String.prototype.includes
strIncludes(str, needle) ==
    \E i \in 0..(Len(str) - Len(needle)) : SubSeq(str, i + 1, i + Len(needle)) = needle

attachmentKeywords ==
    {<<"a", "t", "t", "a", "c", "h", "m", "e", "n", "t">>,
     <<"d", "o", "c", "u", "m", "e", "n", "t">>,
     <<"f", "i", "l", "e">>,
     <<"p", "d", "f">>,
     <<"d", "o", "c">>,
     <<"u", "p", "l", "o", "a", "d", "e", "d">>}

mentionsAttachment(query) ==
    \E keyword \in attachmentKeywords : strIncludes(toLowerCase(query), keyword)

AttachmentPrefix == [k |-> "attachments mentioned", title |-> <<>>, content |-> <<>>]

enhanceContextForAttachments(context) == <<AttachmentPrefix>> \o context

\* `=== DOCUMENT: ${doc.title} ===\n\n${doc.content}\n\n=== END DOCUMENT ===`
documentBlock(doc) == [k |-> "DOCUMENT", title |-> doc.title, content |-> doc.content]

\* `Document "${doc.title}" was selected but contains no readable content.`
placeholderNote(doc) == [k |-> "no readable content", title |-> doc.title, content |-> <<>>]

\* doc.content && doc.content.trim().length > 20
hasSufficientContent_inclusive(doc) == Len(trim(doc.content)) >= SufficientLength

hasSufficientContent(doc) == Len(trim(doc.content)) > SufficientLength

\* Lines 163-178: the context of the fetched documents, before any prefix.
assembleContext(selectedDocuments) ==
    LET documentsWithContent == SelectSeq(selectedDocuments, hasSufficientContent)
    IN  IF Len(documentsWithContent) > 0
        THEN [i \in DOMAIN documentsWithContent |-> documentBlock(documentsWithContent[i])]
        ELSE [i \in DOMAIN selectedDocuments |-> placeholderNote(selectedDocuments[i])]

\* content.substring(0, 300) + (content.length > 300 ? '...' : '')
excerpt(content) ==
    IF Len(content) > ExcerptLength
    THEN SubSeq(content, 1, ExcerptLength) \o <<".", ".", ".">>
    ELSE content

sourceOf(doc, similarity) ==
    [documentId |-> doc.id, documentTitle |-> doc.title,
     similarity |-> similarity, content |-> excerpt(doc.content)]

\* .select('id, title, content').in('id', documentIds)
selectIn(table, documentIds) ==
    LET wanted(row) == \E i \in DOMAIN documentIds : documentIds[i] = row.id
        rows == SelectSeq(table, wanted)
    IN  [i \in DOMAIN rows |->
            [id |-> rows[i].id, title |-> rows[i].title, content |-> rows[i].content]]

firstOf(seq, limit) == SubSeq(seq, 1, IF Len(seq) < limit THEN Len(seq) ELSE limit)

\* searchDocuments once its query returned `found` (data), or null.
searchDocuments(query, found, isNull, limit) ==
    LET matches(doc) == doc.content # <<>>
                        /\ strIncludes(toLowerCase(doc.content), toLowerCase(query))
    IN  IF isNull THEN <<>> ELSE firstOf(SelectSeq(found, matches), limit)

\* Lines 184-199: the sources when the search returned.
sourcesOf(relevantChunks, selectedDocuments) ==
    LET hasContent(doc) == doc.content # <<>>
        withContent == SelectSeq(selectedDocuments, hasContent)
    IN  IF Len(relevantChunks) > 0
        THEN [i \in DOMAIN relevantChunks |-> sourceOf(relevantChunks[i], MatchSimilarity)]
        ELSE [i \in DOMAIN withContent |-> sourceOf(withContent[i], FallbackSimilarity)]

\* Lines 203-210: the sources when the search threw.
sourcesAfterSearchError(selectedDocuments) ==
    LET hasContent(doc) == doc.content # <<>>
        withContent == SelectSeq(selectedDocuments, hasContent)
    IN  [i \in DOMAIN withContent |-> sourceOf(withContent[i], SearchErrorSimilarity)]

contextAfterSearchError_cleared(context) == <<>>

\* catch (searchError) assigns the sources only; the context stays.
contextAfterSearchError(context) == context

shouldEnhance_mentionOnly(userMentionsAttachment, context) == userMentionsAttachment

\* userMentionsAttachment && context
shouldEnhance(userMentionsAttachment, context) ==
    userMentionsAttachment /\ context # <<>>

\* generateChatResponse, by which of its two texts it returns.
generateChatResponse(context) ==
    IF context # <<>> THEN "Based on the provided documents" ELSE "I understand you're asking about"

\* The bodies a stored document may have.
Filled(n, ch) == [i \in 1..n |-> ch]
Contents ==
    {<<>>,
     Spaces(2),
     Spaces(1) \o Letters(SufficientLength) \o Spaces(1),
     Letters(SufficientLength + 1),
     Filled(SufficientLength + 1, "Q"),
     <<"p", "d", "f">> \o Letters(ExcerptLength - 2)}

Queries == {<<>>, <<"q">>, <<"P", "D", "F">>}

ChatIds == 1..MaxChatRows

chatRow(id, content) ==
    [id |-> id, title |-> <<"title", id>>, content |-> content,
     user_id |-> "alice", is_company_wide |-> FALSE]

\* The lists of pairwise different ids of at most n entries.
IdLists(n) ==
    {l \in UNION {[1..k -> ChatIds] : k \in 0..n} :
        \A i, j \in DOMAIN l : i # j => l[i] # l[j]}

\* More documents than the search keeps, each matching the query "q".
ManyDocuments == [id \in 1..(SearchLimit + 1) |-> chatRow(id, Filled(SufficientLength + 1, "q"))]

ChatTables ==
    {ManyDocuments} \cup
    UNION {{[i \in 1..Len(ids) |-> chatRow(ids[i], body[i])] :
              body \in [1..Len(ids) -> Contents]} : ids \in IdLists(MaxChatRows)}

DocumentIdLists ==
    {l \in IdLists(MaxChatRows) \cup {[i \in 1..(SearchLimit + 1) |-> i]} :
        Len(l) <= MaxDocumentIds}

InitChat ==
    /\ documents \in ChatTables
    /\ storage = {} /\ conversations = {} /\ api = NoRequest
    /\ RestIdle

\* The handler up to `await supabase.auth.getUser(token)`.
ChatArrive(query, documentIds, token) ==
    /\ api.pc = "idle"
    /\ LET req == [pc |-> "auth", route |-> "POST /api/chat/stream", token |-> token,
                   role |-> None, status |-> 0, query |-> query,
                   documentIds |-> documentIds, fetched |-> FALSE,
                   selectedDocuments |-> <<>>, searched |-> "no",
                   assembled |-> <<>>, context |-> <<>>, sources |-> <<>>,
                   response |-> None]
       IN  api' = IF query = <<>> THEN reply(req, 400)
                  ELSE IF token = None THEN reply(req, 401)
                  ELSE req
    /\ UNCHANGED conversations
    /\ UNCHANGED notApi

\* getUser returned; the limiter is asked and the profile query sent.
ChatAuthResolved(authError, allowed) ==
    /\ api.pc = "auth"
    /\ api' = IF ~authenticated(api.token, authError) THEN reply(api, 401)
              ELSE IF ~allowed THEN reply(api, 429)
              ELSE [api EXCEPT !.pc = "profile"]
    /\ UNCHANGED conversations
    /\ UNCHANGED notApi

\* Lines 220-228: the prefix, then generateChatResponse is called.
enhanceAndGenerate(req, context, sources) ==
    [req EXCEPT !.pc = "generate", !.assembled = context, !.sources = sources,
                !.context = IF shouldEnhance(mentionsAttachment(req.query), context)
                            THEN enhanceContextForAttachments(context)
                            ELSE context]

\* The profile came back; with documentIds the documents are asked for.
ChatProfileResolved(profile) ==
    /\ api.pc = "profile"
    /\ api' = IF ~approved(profile) THEN reply(api, 403)
              ELSE IF Len(api.documentIds) > 0
                   THEN [api EXCEPT !.pc = "documents", !.role = profile.role]
                   ELSE enhanceAndGenerate([api EXCEPT !.role = profile.role], <<>>, <<>>)
    /\ UNCHANGED conversations
    /\ UNCHANGED notApi

\* The selected documents came back ("ok"), or docError, or the call threw.
ChatDocumentsResolved(fetch) ==
    /\ api.pc = "documents"
    /\ LET selectedDocuments == selectIn(documents, api.documentIds)
       IN  api' = IF fetch = "ok" /\ Len(selectedDocuments) > 0
                  THEN [api EXCEPT !.pc = "search", !.fetched = TRUE,
                                   !.selectedDocuments = selectedDocuments,
                                   !.assembled = assembleContext(selectedDocuments),
                                   !.context = assembleContext(selectedDocuments)]
                  ELSE enhanceAndGenerate(api, <<>>, <<>>)
    /\ UNCHANGED conversations
    /\ UNCHANGED notApi

\* searchDocuments returned its matches ("ok"), found its data null, or threw.
ChatSearchResolved(search) ==
    /\ api.pc = "search"
    /\ LET relevantChunks == searchDocuments(api.query, selectIn(documents, api.documentIds),
                                             search = "null", SearchLimit)
           sources == IF search = "throws"
                      THEN sourcesAfterSearchError(api.selectedDocuments)
                      ELSE sourcesOf(relevantChunks, api.selectedDocuments)
           context == IF search = "throws" THEN contextAfterSearchError(api.context)
                      ELSE api.context
       IN  api' = enhanceAndGenerate([api EXCEPT !.searched = search], context, sources)
    /\ UNCHANGED conversations
    /\ UNCHANGED notApi

\* generateChatResponse returned; res.json({ response, sources }).
ChatGenerateResolved ==
    /\ api.pc = "generate"
    /\ api' = [reply(api, 200) EXCEPT !.response = generateChatResponse(api.context)]
    /\ UNCHANGED conversations
    /\ UNCHANGED notApi

NextChat ==
    \/ \E query \in Queries, documentIds \in DocumentIdLists, token \in Tokens :
          ChatArrive(query, documentIds, token)
    \/ \E authError \in BOOLEAN, allowed \in BOOLEAN : ChatAuthResolved(authError, allowed)
    \/ \E profile \in Profiles : ChatProfileResolved(profile)
    \/ \E fetch \in {"ok", "error", "throws"} : ChatDocumentsResolved(fetch)
    \/ \E search \in {"ok", "null", "throws"} : ChatSearchResolved(search)
    \/ ChatGenerateResolved
    \/ ApiFinished

SpecChat == InitChat /\ [][NextChat]_vars

isPrefixed(context) == context # <<>> /\ context[1] = AttachmentPrefix

(***************************************************************************)
(* C17: the context handed to reply generation is prefixed with the        *)
(* attachment sentence exactly when the query contains, in any case, one   *)
(* of the keywords AND the assembled context is not empty; the prefix is   *)
(* put in front of the assembled context and nothing else is changed.      *)
(***************************************************************************)
C17_PrefixedIffKeywordAndContext ==
    api.pc = "generate" =>
        /\ isPrefixed(api.context) <=>
              (mentionsAttachment(api.query) /\ api.assembled # <<>>)
        /\ api.context = IF isPrefixed(api.context)
                         THEN <<AttachmentPrefix>> \o api.assembled
                         ELSE api.assembled
        /\ ~isPrefixed(api.assembled)

\* A query with a keyword in capitals and documents with a body: prefixed.
C17_Witness ==
    /\ api.pc = "generate"
    /\ api.query = <<"P", "D", "F">>
    /\ \E i \in DOMAIN api.assembled : api.assembled[i].k = "DOCUMENT"
    /\ isPrefixed(api.context)

\* C17 as stated: prefixed whenever the query contains a keyword, and not
\* prefixed when it contains none.
C17_PrefixedIffKeyword ==
    api.pc = "generate" =>
        (isPrefixed(api.context) <=> mentionsAttachment(api.query))

Range(seq) == {seq[i] : i \in DOMAIN seq}

(***************************************************************************)
(* C18: a fetched document has sufficient content iff its trimmed body is  *)
(* longer than 20 characters; in the assembled context every selected      *)
(* document without sufficient content has its placeholder note and every  *)
(* document with sufficient content has its full body, whatever the mix.   *)
(***************************************************************************)
C18_EveryDocumentContributes ==
    (api.pc \in {"search", "generate"} /\ api.fetched) =>
        \A doc \in Range(api.selectedDocuments) :
            /\ hasSufficientContent(doc) <=> Len(trim(doc.content)) > SufficientLength
            /\ IF hasSufficientContent(doc)
               THEN documentBlock(doc) \in Range(api.assembled)
               ELSE placeholderNote(doc) \in Range(api.assembled)

(***************************************************************************)
(* C19: the assembled context is the blocks of all selected documents with *)
(* sufficient content, in the order of the request's documentIds, each     *)
(* with its title and its whole body, none left out.                       *)
(***************************************************************************)
C19_ContextInRequestOrder ==
    (api.pc \in {"search", "generate"} /\ api.fetched
        /\ \E doc \in Range(api.selectedDocuments) : hasSufficientContent(doc)) =>
        LET sufficient(id) == \E doc \in Range(api.selectedDocuments) :
                                 doc.id = id /\ hasSufficientContent(doc)
            ids == SelectSeq(api.documentIds, sufficient)
            withId(id) == CHOOSE doc \in Range(api.selectedDocuments) : doc.id = id
        IN  api.assembled = [i \in DOMAIN ids |-> documentBlock(withId(ids[i]))]

(***************************************************************************)
(* C20: after a search that returned, if a fetched document's body         *)
(* contains the query in any case the sources are exactly the matching     *)
(* documents, each with the match score and its body cut to 300 characters *)
(* with '...' iff it is longer; if none matches, the sources are all       *)
(* fetched documents with a body, each with the higher fallback score.     *)
(***************************************************************************)
C20_SourcesAreTheMatches ==
    (api.pc = "generate" /\ api.fetched /\ api.searched = "ok") =>
        LET matches(doc) == strIncludes(toLowerCase(doc.content), toLowerCase(api.query))
            matching == {doc \in Range(api.selectedDocuments) : matches(doc)}
            withBody == {doc \in Range(api.selectedDocuments) : doc.content # <<>>}
        IN  Range(api.sources) =
               IF matching # {}
               THEN {sourceOf(doc, MatchSimilarity) : doc \in matching}
               ELSE {sourceOf(doc, FallbackSimilarity) : doc \in withBody}

(***************************************************************************)
(* C21: when the source search fails (it throws, or its query returns no   *)
(* data), the context stays the one assembled from the fetched documents,  *)
(* the sources are empty or the fetched documents that have a body, and    *)
(* the request is answered 200 with the generated response.                *)
(***************************************************************************)
C21_SearchFailureNonFatal ==
    [][/\ (api.pc = "search" /\ api'.searched # "ok") =>
            /\ api'.pc = "generate"
            /\ api'.assembled = assembleContext(api.selectedDocuments)
            /\ api'.assembled = api.assembled
            /\ api'.context \in {api.assembled, <<AttachmentPrefix>> \o api.assembled}
            /\ \/ api'.sources = <<>>
               \/ \E similarity \in {FallbackSimilarity, SearchErrorSimilarity} :
                     LET hasContent(doc) == doc.content # <<>>
                         withContent == SelectSeq(api.selectedDocuments, hasContent)
                     IN  api'.sources =
                            [i \in DOMAIN withContent |-> sourceOf(withContent[i], similarity)]
       /\ (api.pc = "generate" /\ api.searched # "no" /\ api' # api) =>
            /\ api'.pc = "done" /\ api'.status = 200
            /\ api'.response = generateChatResponse(api.context)
            /\ api'.context = api.context /\ api'.sources = api.sources
    ]_vars

\* A request whose search threw was answered 200 with its context and a
\* best-effort source list.
C21_Witness ==
    /\ api.pc = "done" /\ api.status = 200 /\ api.searched = "throws"
    /\ \E i \in DOMAIN api.context : api.context[i].k = "DOCUMENT"
    /\ api.sources # <<>>

(***************************************************************************)
(* C22: in POST /extract, once the object has been uploaded, a failure of  *)
(* the download, the dispatch or the extraction is answered only after the *)
(* removal of that object has been attempted; the answer carries the       *)
(* status and message of the original failure whether or not the removal   *)
(* succeeded; a successful request leaves the object in storage.           *)
(***************************************************************************)
C22_ExtractCompensation ==
    [][\A e \in ExSlots :
        /\ (ex[e].pc \in {"download", "extract"} /\ ex'[e].pc = "done")
              => (ex'[e].status = 200 /\ storage' = storage
                  /\ ex[e].storageInfo \in storage')
        /\ (ex[e].pc = "extract" /\ ex'[e].pc = "delete")
              => (ex'[e].out.raised /\ ex'[e].message = ex'[e].out.message
                  /\ ex'[e].after = 500)
        /\ (ex[e].pc = "download" /\ ex'[e].pc = "delete")
              => \/ ex'[e].after = 500 /\ ex'[e].message \in {"Download failed", "write failed"}
                 \/ ex'[e].after = 400 /\ ex'[e].message = "Unsupported file type"
        /\ (ex[e].pc = "delete" /\ ex'[e].pc # "delete")
              => /\ ex'[e].pc = "done"
                 /\ ex'[e].status = ex[e].after /\ ex'[e].message = ex[e].message
                 /\ storage' \in {storage, storage \ {ex[e].storageInfo}}
        /\ (ex'[e] # ex[e] /\ ex[e].pc # "delete") => storage \subseteq storage'
    ]_vars

\* An extractor failure was answered 500 with the extractor's message although
\* the removal failed and the object is still stored.
C22_Witness ==
    \E e \in ExSlots :
        /\ ex[e].pc = "done" /\ ex[e].status = 500
        /\ ex[e].out.raised /\ ex[e].message = ex[e].out.message
        /\ ex[e].storageInfo \in storage

(***************************************************************************)
(* C23: in POST /api/documents the insert is sent only by the step that    *)
(* saw the object upload succeed; a failed upload is answered 500 without  *)
(* any insert; a row is added only by a request whose insert is pending,   *)
(* and its file_path is the path of the object that request uploaded.      *)
(***************************************************************************)
C23_UploadBeforeInsert ==
    [][/\ \A p \in PostSlots :
            /\ (post[p].pc = "upload" /\ post'[p] # post[p]) =>
                  IF post'[p].pc = "insert"
                  THEN /\ post[p].filePath \notin storage
                       /\ storage' = storage \cup {post[p].filePath}
                       /\ documents' = documents
                  ELSE /\ post'[p].pc = "done" /\ post'[p].status = 500
                       /\ post'[p].exit = "uploadError"
                       /\ documents' = documents /\ storage' = storage
            /\ (post'[p].pc = "insert" /\ post[p].pc # "insert") => post[p].pc = "upload"
       /\ \A row \in documents' \ documents :
            \E p \in PostSlots :
                /\ post[p].pc = "insert" /\ post'[p].exit = "success"
                /\ documents' = documents \cup {row}
                /\ row.file_path = post[p].filePath
    ]_vars

\* An answered upload whose row refers to the object it put into storage.
C23_Witness ==
    \E p \in PostSlots, row \in documents :
        /\ post[p].pc = "done" /\ post[p].exit = "success"
        /\ row.file_path = post[p].filePath /\ row.file_path \in storage

(***************************************************************************)
(* cleanupTempFile called on its own (app.js and StorageService have the   *)
(* same body): existsSync, unlinkSync, and a catch that only logs.         *)
(***************************************************************************)
\* fs.unlinkSync: throws when the path is not there or the removal fails.
unlinkSync(files, filePath, fails) ==
    [files |-> IF filePath \in files /\ ~fails THEN files \ {filePath} ELSE files,
     threw |-> filePath \notin files \/ fails]

catchBlock_rethrows(threw) == threw

\* catch (error) { console.error(...) }: whether the call still throws.
catchBlock(threw) == FALSE

\* One call: the files afterwards, whether it threw and whether it logged.
cleanupTempFileCall(files, filePath, fails) ==
    LET tried == IF filePath \in files THEN unlinkSync(files, filePath, fails)
                 ELSE [files |-> files, threw |-> FALSE]
    IN  [files |-> tried.files, threw |-> catchBlock(tried.threw), logged |-> tried.threw]

ScratchPaths ==
    {uploadPath(sid) : sid \in ScratchIds} \cup {tempFileName(key) : key \in Keys}

InitCleanup ==
    /\ tempFiles \in SUBSET ScratchPaths
    /\ storage = {} /\ documents = {} /\ conversations = {} /\ api = NoRequest
    /\ requests = EmptyMap /\ now = 0 /\ maxRequests = 0 /\ windowMs = 0
    /\ callers = [c \in Callers |-> IdleCaller]
    /\ admitLog = [k \in LimiterKeys |-> <<>>]
    /\ file = NoFile /\ outcome = NoOutcome /\ result = NoResult
    /\ ex = [e \in ExSlots |-> IdleEx]
    /\ post = [p \in PostSlots |-> IdlePost] /\ del = [d \in DelSlots |-> IdleDel]

\* A scratch file is written (multer, downloadFile).
ScratchWritten(filePath) ==
    /\ filePath \notin tempFiles
    /\ tempFiles' = tempFiles \cup {filePath}
    /\ api' = NoRequest
    /\ UNCHANGED <<storage, rlVars, txtVars, exVars, docVars, conversations>>

\* cleanupTempFile(filePath) is called and returns or throws.
CleanupCalled(filePath, fails) ==
    /\ LET call == cleanupTempFileCall(tempFiles, filePath, fails)
       IN  /\ tempFiles' = call.files
           /\ api' = [pc |-> "cleanupTempFile", filePath |-> filePath, fails |-> fails,
                      before |-> tempFiles, threw |-> call.threw, logged |-> call.logged,
                      calls |-> IF api.pc = "cleanupTempFile" /\ api.filePath = filePath
                                THEN 2 ELSE 1]
    /\ UNCHANGED <<storage, rlVars, txtVars, exVars, docVars, conversations>>

NextCleanup ==
    \/ \E filePath \in ScratchPaths : ScratchWritten(filePath)
    \/ \E filePath \in ScratchPaths, fails \in BOOLEAN : CleanupCalled(filePath, fails)

SpecCleanup == InitCleanup /\ [][NextCleanup]_vars

(***************************************************************************)
(* C24: a call of cleanupTempFile never throws, whether the path is gone,  *)
(* the call is the second one on the same path, or unlinkSync fails; it    *)
(* touches no other path; when the removal did not fail the path does not  *)
(* exist afterwards; and a second call changes nothing more.               *)
(***************************************************************************)
C24_CleanupIdempotent ==
    api.pc = "cleanupTempFile" =>
        /\ ~api.threw
        /\ tempFiles \subseteq api.before /\ api.before \ tempFiles \subseteq {api.filePath}
        /\ api.filePath \notin api.before => (tempFiles = api.before /\ ~api.logged)
        /\ ~api.fails => api.filePath \notin tempFiles
        /\ tempFiles = cleanupTempFile(api.before, api.filePath, api.fails)
        /\ LET again == cleanupTempFileCall(tempFiles, api.filePath, FALSE)
           IN  ~again.threw /\ (~api.fails => again.files = tempFiles)

\* A second call on a path the first call removed.
C24_Witness ==
    /\ api.pc = "cleanupTempFile" /\ api.calls = 2
    /\ api.filePath \notin api.before /\ ~api.threw

(***************************************************************************)
(* OCRService.extractText and filterLowConfidenceText.  `outcome` is what  *)
(* Tesseract.recognize resolved with, `result` what extractText returned.  *)
(***************************************************************************)
\* filterLowConfidenceText(data, minConfidence = 30)
OcrMinConfidence == 30

\* data.words of a recognition without word list.
NoWords == <<[none |-> TRUE]>>

RECURSIVE joinWords(_)
\* Array.prototype.join(' ')
joinWords(texts) ==
    IF texts = <<>> THEN <<>>
    ELSE IF Len(texts) = 1 THEN texts[1]
    ELSE texts[1] \o <<" ">> \o joinWords(Tail(texts))

confident_strict(word, minConfidence) == word.confidence > minConfidence

\* word.confidence >= minConfidence
confident(word, minConfidence) == word.confidence >= minConfidence

\* `a || b` for strings: the empty string is falsy.
orElse(a, b) == IF a # <<>> THEN a ELSE b

filterLowConfidenceText(data, minConfidence) ==
    IF data.words = NoWords THEN data.text
    ELSE LET keep(word) == confident(word, minConfidence)
             kept == SelectSeq(data.words, keep)
             filteredWords == joinWords([i \in DOMAIN kept |-> kept[i].text])
         IN  orElse(filteredWords, data.text)

\* extractText after Tesseract.recognize resolved with data, or rejected.
ocrExtractText(data) ==
    IF data.rejected
    THEN [raised |-> TRUE, text |-> <<>>, words |-> 0]
    ELSE [raised |-> FALSE,
          text |-> orElse(filterLowConfidenceText(data, OcrMinConfidence), trim(data.text)),
          words |-> IF data.words = NoWords THEN 0 ELSE Len(data.words)]

OcrWords ==
    [text : {<<>>, <<"a">>, <<"b", "c">>},
     confidence : {OcrMinConfidence - 1, OcrMinConfidence, OcrMinConfidence + 1}]

OcrWordLists == {NoWords} \cup UNION {[1..n -> OcrWords] : n \in 0..MaxWords}

OcrTexts == {<<>>, <<" ">>, <<"a", " ", "b", "c">>, <<" ", "a", " ">>}

OcrData ==
    [rejected : {FALSE}, text : OcrTexts, words : OcrWordLists]
    \cup {[rejected |-> TRUE, text |-> <<>>, words |-> NoWords]}

InitOcr ==
    /\ outcome \in OcrData /\ result = NoResult /\ file = NoFile
    /\ tempFiles = {} /\ storage = {} /\ documents = {} /\ conversations = {}
    /\ api = NoRequest
    /\ requests = EmptyMap /\ now = 0 /\ maxRequests = 0 /\ windowMs = 0
    /\ callers = [c \in Callers |-> IdleCaller]
    /\ admitLog = [k \in LimiterKeys |-> <<>>]
    /\ ex = [e \in ExSlots |-> IdleEx]
    /\ post = [p \in PostSlots |-> IdlePost] /\ del = [d \in DelSlots |-> IdleDel]

\* extractText returns, or throws, for the recognition at hand.
OcrExtractText ==
    /\ result = NoResult
    /\ result' = ocrExtractText(outcome)
    /\ UNCHANGED <<file, outcome>>
    /\ UNCHANGED notText

\* The next image has been recognized.
OcrRecognized(data) ==
    /\ result # NoResult
    /\ outcome' = data /\ result' = NoResult
    /\ UNCHANGED file
    /\ UNCHANGED notText

NextOcr ==
    \/ OcrExtractText
    \/ \E data \in OcrData : OcrRecognized(data)

SpecOcr == InitOcr /\ [][NextOcr]_vars

(***************************************************************************)
(* C25: the text extractText returns is the recognized words of confidence *)
(* 30 or more, joined word by word, when that text is not empty; it is the *)
(* unfiltered recognized text when the filtered text is empty or there is  *)
(* no word list; a non-empty recognized text never gives an empty result.  *)
(***************************************************************************)
C25_ConfidenceFilter ==
    (result # NoResult /\ ~result.raised) =>
        LET atLeast(word) == word.confidence >= OcrMinConfidence
            kept == IF outcome.words = NoWords THEN <<>>
                    ELSE SelectSeq(outcome.words, atLeast)
            filtered == joinWords([i \in DOMAIN kept |-> kept[i].text])
        IN  /\ filtered # <<>> => result.text = filtered
            /\ filtered = <<>> => result.text = outcome.text
            /\ outcome.text # <<>> => result.text # <<>>

\* A word list with one word at the threshold and one below it: the text is
\* the word at the threshold alone.
C25_Witness ==
    /\ result # NoResult /\ ~result.raised
    /\ outcome.words # NoWords /\ Len(outcome.words) = 2
    /\ outcome.words[1].confidence = OcrMinConfidence
    /\ outcome.words[2].confidence < OcrMinConfidence
    /\ outcome.words[1].text # <<>> /\ outcome.words[2].text # <<>>
    /\ result.text = outcome.words[1].text /\ result.text # outcome.text

(***************************************************************************)
(* globalErrorHandler (middleware/errorHandler).  An error is the record   *)
(* of its own properties; `name` is None unless the error carries its own. *)
(***************************************************************************)
\* constants.SERVER.NODE_ENV: process.env.NODE_ENV || 'development'
NODE_ENV(env) == IF env = None THEN "development" ELSE env

isDevelopment_notProduction(env) == NODE_ENV(env) # "production"

\* constants.SERVER.NODE_ENV === 'development'
isDevelopment(env) == NODE_ENV(env) = "development"

NoResponse == [statusCode |-> 0, keys |-> {}, status |-> None, message |-> None,
               stack |-> None]

sendErrorDev(err) ==
    [statusCode |-> err.statusCode,
     keys |-> {"status", "error", "message", "stack", "timestamp"},
     status |-> err.status, message |-> err.message, stack |-> err.stack]

sendErrorProd(err) ==
    IF err.isOperational
    THEN [statusCode |-> err.statusCode, keys |-> {"status", "message", "timestamp"},
          status |-> err.status, message |-> err.message, stack |-> None]
    ELSE [statusCode |-> 500, keys |-> {"status", "message", "timestamp"},
          status |-> "error", message |-> "Something went wrong!", stack |-> None]

\* new AppError(message, statusCode), with the fields sendErrorProd reads.
AppError(message, statusCode) ==
    [name |-> None, code |-> 0, statusCode |-> statusCode, isOperational |-> TRUE,
     status |-> IF statusCode \div 100 = 4 THEN "fail" ELSE "error",
     message |-> message, stack |-> "stack of AppError"]

\* Lines 136-140: handleDuplicateFieldsDB and handleValidationErrorDB read
\* err.errmsg and err.errors, which no error of this program has, and throw.
conversionThrows(error) ==
    /\ error.name # "CastError"
    /\ error.code = 11000 \/ error.name = "ValidationError"

convertError(error) ==
    IF error.name = "CastError" THEN AppError("Invalid undefined: undefined", 400)
    ELSE IF error.name = "JsonWebTokenError"
    THEN AppError("Invalid token. Please log in again!", 401)
    ELSE IF error.name = "TokenExpiredError"
    THEN AppError("Your token has expired! Please log in again.", 401)
    ELSE error

\* What the handler sends for err, or NoResponse when it throws itself.
globalErrorHandler(env, err) ==
    LET withDefaults == [err EXCEPT !.statusCode = IF @ = 0 THEN 500 ELSE @,
                                    !.status = IF @ = None THEN "error" ELSE @]
    IN  IF isDevelopment(env) THEN sendErrorDev(withDefaults)
        ELSE IF conversionThrows(withDefaults) THEN NoResponse
        ELSE sendErrorProd(convertError(withDefaults))

Environments == {None, "development", "production", "test"}

\* The errors passed to next(): an AppError has statusCode, status and
\* isOperational; any other error has none of them.
Errors ==
    {[name |-> n, code |-> c, statusCode |-> sc, isOperational |-> sc # 0,
      status |-> IF sc = 0 THEN None ELSE IF sc \div 100 = 4 THEN "fail" ELSE "error",
      message |-> "relation documents does not exist", stack |-> "at router.post"] :
        n \in {None, "MulterError", "CastError", "ValidationError",
               "JsonWebTokenError", "TokenExpiredError"},
        c \in {0, 11000}, sc \in {0, 400, 404, 429, 500}}

InitError ==
    /\ api = NoRequest
    /\ tempFiles = {} /\ storage = {} /\ documents = {} /\ conversations = {}
    /\ RestIdle

\* An error reaches the handler of a server started with NODE_ENV = env.
ErrorHandled(env, err) ==
    /\ api' = [pc |-> "globalErrorHandler", env |-> env, err |-> err,
               res |-> globalErrorHandler(env, err)]
    /\ UNCHANGED conversations
    /\ UNCHANGED notApi

NextError == \E env \in Environments, err \in Errors : ErrorHandled(env, err)

SpecError == InitError /\ [][NextError]_vars

(***************************************************************************)
(* C26: a response of the global error handler holds the stack trace (or   *)
(* the error object) only when NODE_ENV is 'development'; in every other   *)
(* mode it has status, message and timestamp only, with the error's own    *)
(* status code and message for an operational error and 500 with the       *)
(* generic message for any other error.                                    *)
(***************************************************************************)
C26_NoStackOutsideDevelopment ==
    (api.pc = "globalErrorHandler" /\ api.res # NoResponse
        /\ api.env \notin {None, "development"}) =>
        /\ api.res.keys = {"status", "message", "timestamp"}
        /\ api.res.stack = None
        /\ api.res.message # api.err.stack
        /\ (api.err.isOperational /\ api.err.name \in {None, "MulterError"}) =>
              (api.res.statusCode = api.err.statusCode /\ api.res.message = api.err.message)
        /\ ~api.err.isOperational /\ api.err.name \in {None, "MulterError"} =>
              (api.res.statusCode = 500 /\ api.res.message = "Something went wrong!")
        /\ api.res.message = api.err.message => api.err.isOperational

\* A non-operational error answered in test mode.
C26_Witness ==
    /\ api.pc = "globalErrorHandler" /\ api.env = "test"
    /\ ~api.err.isOperational /\ api.err.name = None
    /\ api.res.statusCode = 500 /\ api.res.message = "Something went wrong!"
    /\ "stack" \notin api.res.keys

(***************************************************************************)
(* C27: after an isAllowed check of a key, the sequence stored for the key *)
(* holds only timestamps not older than now - windowMs, an entry exactly   *)
(* windowMs old being still inside and kept; it never holds more than      *)
(* maxRequests entries; a rejected call adds no timestamp; and no other    *)
(* step changes the stored sequences.                                      *)
(***************************************************************************)
C27_RateWindowInvariant ==
    [][/\ \A c \in Callers : Calls(c) =>
            LET key == rateLimitKey(callers[c].token)
                before == userRequestsOf(requests, key)
                after == requests'[key]
                inside(time) == time >= now - windowMs
            IN  /\ \A i \in DOMAIN after : inside(after[i])
                /\ \A i \in DOMAIN before :
                      inside(before[i]) => \E j \in DOMAIN after : after[j] = before[i]
                /\ Len(after) <= maxRequests
                /\ callers'[c].pc = "429" => after = SelectSeq(before, inside)
       /\ (\A c \in Callers : ~Calls(c)) => requests' = requests
    ]_vars

(***************************************************************************)
(* The two limiters together: routes/chat.js and routes/documents.js each  *)
(* have their own rateLimiter object with its own Map.  In this            *)
(* specification `requests` holds both Maps, by concern.                   *)
(***************************************************************************)
CHAT_maxRequests == 30
CHAT_windowMs == 60000

Concerns == {"chat", "upload"}

\* `chat:${user.id}` and `upload:${user.id}`
limiterKey(concern, user) ==
    IF concern = "chat" THEN rateLimitKey(user) ELSE uploadKey(user)

limitOf(concern) == IF concern = "chat" THEN CHAT_maxRequests ELSE UPLOAD_maxRequests
windowOf(concern) == IF concern = "chat" THEN CHAT_windowMs ELSE UPLOAD_windowMs

\* What isAllowed would return to the user at the concern's limiter.
decision(maps, concern, user, t) ==
    isAllowed(maps[concern], limiterKey(concern, user), limitOf(concern),
              windowOf(concern), t)

storedFor(maps, concern, user) ==
    userRequestsOf(maps[concern], limiterKey(concern, user))

InitLimiters ==
    /\ requests = [concern \in Concerns |-> EmptyMap]
    /\ now = 0 /\ maxRequests = 0 /\ windowMs = 0
    /\ callers = [c \in Callers |-> IdleCaller]
    /\ admitLog = [k \in LimiterKeys |-> <<>>]
    /\ file = NoFile /\ outcome = NoOutcome /\ result = NoResult
    /\ tempFiles = {} /\ storage = {} /\ ex = [e \in ExSlots |-> IdleEx]
    /\ documents = {}
    /\ post = [p \in PostSlots |-> IdlePost] /\ del = [d \in DelSlots |-> IdleDel]
    /\ conversations = {} /\ api = NoRequest

\* rateLimiter.isAllowed(`${concern}:${user.id}`, ...) in the concern's module.
LimiterCalled(concern, user) ==
    /\ requests' = [requests EXCEPT ![concern] =
                       requestsAfter(@, limiterKey(concern, user), limitOf(concern),
                                     windowOf(concern), now)]
    /\ UNCHANGED <<now, maxRequests, windowMs, callers, admitLog>>
    /\ UNCHANGED notRL

NextLimiters == \E concern \in Concerns, user \in Users : LimiterCalled(concern, user)

SpecLimiters == InitLimiters /\ [][NextLimiters]_vars

(***************************************************************************)
(* C28: an isAllowed call for one user at one limiter changes neither the  *)
(* sequence stored for another user or at the other limiter nor what       *)
(* isAllowed would answer there; a call is rejected only when the caller's *)
(* own sequence at that limiter holds the limiter's maximum, 10 for        *)
(* uploads and 30 for chat turns.                                          *)
(***************************************************************************)
C28_LimiterIndependence ==
    [][\E concern \in Concerns, user \in Users :
        /\ requests'[concern] =
              requestsAfter(requests[concern], limiterKey(concern, user),
                            limitOf(concern), windowOf(concern), now)
        /\ \A c2 \in Concerns, u2 \in Users :
              (c2 # concern \/ u2 # user) =>
                  /\ storedFor(requests', c2, u2) = storedFor(requests, c2, u2)
                  /\ decision(requests', c2, u2, now) = decision(requests, c2, u2, now)
        /\ \A c2 \in Concerns : c2 # concern => requests'[c2] = requests[c2]
        /\ ~decision(requests, concern, user, now) <=>
              Len(storedFor(requests, concern, user))
                 = (IF concern = "upload" THEN 10 ELSE 30)
    ]_vars

\* alice's upload quota is used up and she has made as many chat calls,
\* while her chat turns and bob's uploads are still admitted.
C28_Witness ==
    /\ ~decision(requests, "upload", "alice", now)
    /\ Len(storedFor(requests, "chat", "alice")) >= UPLOAD_maxRequests
    /\ decision(requests, "chat", "alice", now)
    /\ decision(requests, "upload", "bob", now)
    /\ storedFor(requests, "upload", "bob") = <<>>

(***************************************************************************)
(* C29: the row POST /api/documents inserts has is_company_wide = true     *)
(* when the request's isCompanyWide field was true, and false when it was  *)
(* false or absent; the field reaches the handler through                  *)
(* validate(uploadDocument).                                               *)
(***************************************************************************)
C29_CompanyWideRoundTrip ==
    [][\A p \in PostSlots :
        post[p].pc = "insert" =>
            \A row \in documents' \ documents :
                row.is_company_wide <=> post[p].isCompanyWide.v = "true"
    ]_vars

(***************************************************************************)
(* C30: the context and the sources of a chat request hold content only of *)
(* documents the caller may read: the caller's own, the company-wide ones, *)
(* or any for an admin.                                                    *)
(***************************************************************************)
C30_ContextOnlyFromReadableDocuments ==
    api.pc \in {"search", "generate"} =>
        LET readable(id) ==
                \A i \in DOMAIN documents :
                    documents[i].id = id => hasAccess(documents[i], api.token, api.role)
        IN  /\ \A i \in DOMAIN api.context :
                  api.context[i].k = "DOCUMENT" => readable(api.context[i].title[2])
            /\ \A i \in DOMAIN api.sources : readable(api.sources[i].documentId)

====
